---- MODULE Spec2Model ----
(***************************************************************************)
(* Label / slip merging (etsy-label): the identifier extractor, the       *)
(* bulk-label reconciliation, the slip grouper and the merge loops of the  *)
(* server, as state machines translated from src/unnamed/part_000 (the     *)
(* processor) and src/server.js.                                           *)
(*                                                                         *)
(* A PDF buffer is modelled by what the code reads from it: whether        *)
(* pdf-parse succeeds on it, and what the regular expressions of the       *)
(* processor see in its text.  A text is the sequence of its order-id      *)
(* occurrences in textual order (each either of the form "Order ID: <d>",  *)
(* matched by the TikTok and the Etsy pattern, or of a form such as        *)
(* "Order #<d>", matched by the Etsy pattern only), its "Order date",      *)
(* "Tracking" and "Buyer" blocks, and the presence of the vendor marker.   *)
(***************************************************************************)
EXTENDS Integers, Sequences, FiniteSets, TLC

\* ------------------------------------------------------------------ bounds
NumIds == 2          \* distinct order identifiers that occur in texts
MaxTextIds == 2      \* order-id occurrences in one text
MaxSlipPages == 3    \* pages of a bulk slip document
MaxLabelPages == 2   \* pages of a bulk label document
MaxHalves == 2       \* extracted halves entering the bulk merge loop
MaxGroupPages == 2   \* pages of the slip document entering the bulk merge loop
MaxPages == 2        \* pages of a document handed to processLabels
MaxFiles == 2        \* files uploaded to one non-bulk merge
MaxDirFiles == 2     \* PDF files a directory of the file system may hold

\* ------------------------------------------------------------- basic values
Null == "null"              \* null where a string is expected
NullObj == [null |-> TRUE]  \* null where an object is expected

\* Order identifiers are digit strings (the patterns capture \d+).
OrderIdNames == <<"111", "222", "99999999999", "333">>
Ids == {OrderIdNames[k] : k \in 1..NumIds}

\* All sequences over S of length at most n.
SeqUpTo(S, n) == UNION {[1..k -> S] : k \in 0..n}

\* --------------------------------------------------------------- variables
VARIABLES
    exBuffer,    \* extractLabelData: the buffer it is called on
    extracted,   \* extractLabelData: the outcome of the call, Pending before it
    pdfIds,      \* getIdsFromPdf: the outcome of the call on exBuffer, Pending before it
    slipPc,          \* extractBulkSlips: "scan", then "done"
    slipPageCount,   \* extractBulkSlips: pdfDoc.getPageCount()
    slipI,           \* extractBulkSlips: the loop index i
    singleBuffer,    \* extractBulkSlips: the single-page buffer last parsed
    foundIds,        \* extractBulkSlips: per scanned page, the id found on it or Null
    currentOrderId,  \* extractBulkSlips: the cursor
    orderPages,      \* extractBulkSlips: id -> page indices, in insertion order
    extractedSlips,  \* extractBulkSlips: the returned groups
    labelPc,         \* extractBulkLabels: "start", "scan", then "done"
    labelDoc,        \* extractBulkLabels: the buffer it is called on
    labelPageCount,  \* extractBulkLabels: pdfDoc.getPageCount()
    labelI,          \* extractBulkLabels: the loop index i
    pageIds,         \* extractBulkLabels: ids found on the whole page last examined
    topIds,          \* extractBulkLabels: ids found in its top half
    botIds,          \* extractBulkLabels: ids found in its bottom half
    topAssigned,     \* extractBulkLabels: finalTopId before the duplicate check
    botAssigned,     \* extractBulkLabels: finalBotId before the duplicate check
    finalTopId,      \* extractBulkLabels: finalTopId when the page is registered
    finalBotId,      \* extractBulkLabels: finalBotId when the page is registered
    extractedLabels, \* extractBulkLabels: the records pushed so far
    mergePc,           \* /merge: "start", "bulk" or "pairs" (the loop), "sort", "done"
    isBulk,            \* /merge: req.body.isBulk === "true"
    fileObjects,       \* processFilePairs: the uploaded files
    shippingLabels,    \* processFilePairs: the files classified as labels
    orderSlips,        \* processFilePairs: the files classified as slips
    labelContentCache, \* processFilePairs: per label, the ids of its text
    loopK,             \* /merge: slips already handled by the loop
    results,           \* /merge: results
    errors,            \* /merge: errors
    calls,             \* /merge: the calls of processLabels made so far
    response,          \* /merge: the response sent, NullObj before
    plLabel1,    \* processLabels: the document of label1Buffer
    plLabel2,    \* processLabels: the document of label2Buffer
    plOptions,   \* processLabels: options
    plOutput,    \* processLabels: the outcome of the call, Pending before it
    splitPc,     \* extractBulkLabels, the split: "split", then "done"
    splitSizes,  \* extractBulkLabels, the split: page.getSize() of every page
    splitI,      \* extractBulkLabels, the split: the loop index i
    topPage,     \* extractBulkLabels, the split: topPage of the page last split
    botPage,     \* extractBulkLabels, the split: botPage of the page last split
    splitHalves, \* the two halves of every page split in this call
    splitRun,    \* which call on the document this is: 1, then 2
    firstSplit,  \* the halves the first call made
    inputDir,        \* server.js: let inputDir
    envFile,         \* server.js: the INPUT_DIR line of the .env file
    fsFiles,         \* the file system: for each existing directory, its listing
    setPc,           \* /set-input-dir: "start", "readEnv", "writeEnv", then "done"
    newPath,         \* /set-input-dir: req.body.path
    setResponse,     \* /set-input-dir: the response sent, NullObj before
    scanPc,          \* /scan-default: "start", "readdir", "read", "pairs", then "done"
    scanStartDir,    \* /scan-default: inputDir when the request began
    scanListedDir,   \* /scan-default: the directory checked and listed
    pdfFiles,        \* /scan-default: pdfFiles
    filePath,        \* /scan-default: filePath of the file being read
    scanFiles,       \* /scan-default: fileObjects, each buffer named by its path
    scanResponse     \* /scan-default: the response sent, NullObj before

extractVars == <<exBuffer, extracted, pdfIds>>
slipVars == <<slipPc, slipPageCount, slipI, singleBuffer, foundIds,
              currentOrderId, orderPages, extractedSlips>>
labelVars == <<labelPc, labelDoc, labelPageCount, labelI, pageIds, topIds,
               botIds, topAssigned, botAssigned, finalTopId, finalBotId,
               extractedLabels>>
mergeVars == <<mergePc, isBulk, fileObjects, shippingLabels, orderSlips,
               labelContentCache, loopK, results, errors, calls, response>>
processVars == <<plLabel1, plLabel2, plOptions, plOutput>>
splitVars == <<splitPc, splitSizes, splitI, topPage, botPage, splitHalves, splitRun,
               firstSplit>>
serverVars == <<inputDir, envFile, fsFiles, setPc, newPath, setResponse, scanPc,
                scanStartDir, scanListedDir, pdfFiles, filePath, scanFiles,
                scanResponse>>
vars == <<extractVars, slipVars, labelVars, mergeVars, processVars, splitVars,
          serverVars>>

Pending == [pending |-> TRUE]

\* ------------------------------------------------------------------- texts
\* "Order ID: <d>" matches /Order ID:\s*(\d+)/i and /Order\s*(?:#|ID)[:\s]*(\d+)/i;
\* "Order #<d>" (or "Order #: <d>", "Order ID <d>") matches only the latter.
IdKinds == {"OrderIdColon", "OrderHash"}
IdToken == [kind : IdKinds, id : Ids]

\* What /Order date\s*\n\s*([A-Za-z]{3}\s\d{1,2},\s\d{4})/i captures: nothing, a
\* date that new Date() parses, or three letters that are no month.
DateBlocks == {Null, "Jan 22, 2026", "Foo 22, 2026"}
\* What /Tracking\s*\n\s*(\d+)/i captures.
TrackingBlocks == {Null, "9400123456"}
\* What /Buyer[:\s]+(.*?)\s*\(([^)]+)\)/i captures: nothing, or name and username.
NoBuyer == [name |-> Null, username |-> Null]
BuyerBlocks == {NoBuyer, [name |-> "Jane Doe", username |-> "janedoe"]}

Text(idSeqs) ==
    [ids : idSeqs, date : DateBlocks, tracking : TrackingBlocks,
     buyer : BuyerBlocks, marker : BOOLEAN]

\* A text with order-id occurrences only.
PlainText(ids) ==
    [ids |-> ids, date |-> Null, tracking |-> Null, buyer |-> NoBuyer,
     marker |-> FALSE]

\* A buffer on which pdf-parse rejects.
Unparseable == [parses |-> FALSE, text |-> PlainText(<<>>)]
Parsed(text) == [parses |-> TRUE, text |-> text]

\* ------------------------------------------------------- extractLabelData
\* Mutant: the last "Order ID: <d>" occurrence is taken.
tiktokMatchLast(text) ==
    LET hits == {k \in 1..Len(text.ids) : text.ids[k].kind = "OrderIdColon"}
    IN  IF hits = {} THEN Null
        ELSE text.ids[CHOOSE k \in hits : \A j \in hits : k >= j].id

\* text.match(/Order ID:\s*(\d+)/i): the first "Order ID: <d>" occurrence.
tiktokMatch(text) ==
    LET hits == {k \in 1..Len(text.ids) : text.ids[k].kind = "OrderIdColon"}
    IN  IF hits = {} THEN Null
        ELSE text.ids[CHOOSE k \in hits : \A j \in hits : k <= j].id

\* text.match(/Order\s*(?:#|ID)[:\s]*(\d+)/i): the first occurrence of any form.
etsyMatch(text) == IF Len(text.ids) = 0 THEN Null ELSE text.ids[1].id

\* Mutant: a captured date that does not parse is dropped.
formattedDateOrDash(dateMatch) ==
    IF dateMatch = "Jan 22, 2026" THEN "01/22/2026" ELSE "-"

\* new Date(dateStr) formatted MM/DD/YYYY, or dateStr when the date is invalid.
formattedDate(dateMatch) ==
    CASE dateMatch = Null -> "-"
      [] dateMatch = "Jan 22, 2026" -> "01/22/2026"
      [] OTHER -> dateMatch

\* The value returned for a text (the body of the try block).
ExtractFromText(text) ==
    IF tiktokMatch(text) # Null
    THEN [id |-> tiktokMatch(text), type |-> "tiktok", date |-> "-",
          tracking |-> "-"]
    ELSE IF etsyMatch(text) # Null
    THEN [id |-> etsyMatch(text), type |-> "etsy",
          date |-> formattedDate(text.date),
          tracking |-> IF text.tracking = Null THEN "-" ELSE text.tracking,
          buyerName |-> IF text.buyer.name = Null THEN "-" ELSE text.buyer.name,
          buyerUsername |->
              IF text.buyer.username = Null THEN "-" ELSE text.buyer.username]
    ELSE NullObj

\* The outcome of a call: what is returned, and whether an exception escapes.
Returned(v) == [threw |-> FALSE, value |-> v]
Thrown == [threw |-> TRUE, value |-> NullObj]

\* Mutant: no try/catch around pdfParse.
extractLabelDataNoCatch(buffer) ==
    IF buffer.parses THEN Returned(ExtractFromText(buffer.text)) ELSE Thrown

\* Mutant: the Etsy rule is tried before the TikTok rule.
extractLabelDataEtsyFirst(buffer) ==
    IF ~buffer.parses THEN Returned(NullObj)
    ELSE IF etsyMatch(buffer.text) # Null
    THEN Returned([id |-> etsyMatch(buffer.text), type |-> "etsy",
                   date |-> formattedDate(buffer.text.date),
                   tracking |-> "-", buyerName |-> "-", buyerUsername |-> "-"])
    ELSE Returned(NullObj)

extractLabelData(buffer) ==
    IF buffer.parses THEN Returned(ExtractFromText(buffer.text))
    ELSE Returned(NullObj)

\* ------------------------------------------------- calls of extractLabelData
ExtractBuffers ==
    {Unparseable} \cup {Parsed(t) : t \in Text(SeqUpTo(IdToken, MaxTextIds))}

ExtractInit ==
    exBuffer \in ExtractBuffers /\ extracted = Pending /\ pdfIds = Pending
ExtractIdle ==
    exBuffer = Unparseable /\ extracted = Pending /\ pdfIds = Pending

CallExtractLabelData ==
    /\ extracted = Pending
    /\ extracted' = extractLabelData(exBuffer)
    /\ UNCHANGED <<exBuffer, pdfIds>>
    /\ UNCHANGED <<slipVars, labelVars, mergeVars, processVars, splitVars,
                   serverVars>>

HasTikTokPattern(text) == \E k \in 1..Len(text.ids) : text.ids[k].kind = "OrderIdColon"
HasEtsyPattern(text) == Len(text.ids) > 0

\* C7: the rules are tried in order and the first match wins: a text with the
\* TikTok pattern gives type tiktok with date "-" and tracking "-" whatever else
\* it contains, and type etsy is produced only when the TikTok pattern does not
\* match and the Etsy pattern does.
C7_TikTokRuleFirst ==
    (extracted # Pending /\ exBuffer.parses) =>
        /\ HasTikTokPattern(exBuffer.text) =>
              /\ ~extracted.threw
              /\ extracted.value # NullObj
              /\ extracted.value.type = "tiktok"
              /\ extracted.value.date = "-"
              /\ extracted.value.tracking = "-"
        /\ (~extracted.threw /\ extracted.value # NullObj
             /\ extracted.value.type = "etsy") =>
              (~HasTikTokPattern(exBuffer.text) /\ HasEtsyPattern(exBuffer.text))

\* A text whose first occurrence is Etsy-only, with a later "Order ID:" and with
\* date and tracking blocks, has been extracted as tiktok.
C7_Witness ==
    /\ extracted # Pending
    /\ exBuffer.parses
    /\ Len(exBuffer.text.ids) = 2
    /\ exBuffer.text.ids[1].kind = "OrderHash"
    /\ exBuffer.text.ids[2].kind = "OrderIdColon"
    /\ exBuffer.text.date # Null
    /\ exBuffer.text.tracking # Null
    /\ extracted.value.type = "tiktok"

\* C8: extractLabelData returns null, and lets no exception escape, when neither
\* pattern matches and when text extraction fails; whenever it returns an object
\* the object carries an identifier found in the text.
C8_NullOnFailure ==
    extracted # Pending =>
        /\ ~extracted.threw
        /\ (~exBuffer.parses \/ ~HasEtsyPattern(exBuffer.text)) =>
              extracted.value = NullObj
        /\ extracted.value # NullObj =>
              \E k \in 1..Len(exBuffer.text.ids) :
                  extracted.value.id = exBuffer.text.ids[k].id

\* pdf-parse rejected the buffer: the call returned null and threw nothing.
C8_Witness ==
    extracted = Returned(NullObj) /\ ~exBuffer.parses

\* C23: for a text matched by the Etsy rule (and not by the TikTok rule), each
\* optional field of the result depends on its own block only: the date is
\* MM/DD/YYYY when the captured date parses, the captured string when it does
\* not and "-" when the block is absent; the tracking is the captured digits or
\* "-"; buyer name and username are both captured or both "-".
C23_OptionalFields ==
    (/\ extracted # Pending
     /\ exBuffer.parses
     /\ HasEtsyPattern(exBuffer.text)
     /\ ~HasTikTokPattern(exBuffer.text)) =>
        LET text == exBuffer.text
            v == extracted.value
        IN  /\ v # NullObj
            /\ v.type = "etsy"
            /\ text.date = Null => v.date = "-"
            /\ text.date = "Jan 22, 2026" => v.date = "01/22/2026"
            /\ text.date = "Foo 22, 2026" => v.date = "Foo 22, 2026"
            /\ text.tracking = Null => v.tracking = "-"
            /\ text.tracking # Null => v.tracking = text.tracking
            /\ text.buyer = NoBuyer => (v.buyerName = "-" /\ v.buyerUsername = "-")
            /\ text.buyer # NoBuyer =>
                  /\ v.buyerName = text.buyer.name
                  /\ v.buyerUsername = text.buyer.username

\* An Etsy text with a date that does not parse, no tracking block and a buyer
\* block: the date is kept as captured, the tracking is "-", the buyer is
\* captured.
C23_Witness ==
    /\ extracted # Pending
    /\ exBuffer.parses
    /\ exBuffer.text.ids = <<[kind |-> "OrderHash", id |-> "111"]>>
    /\ exBuffer.text.date = "Foo 22, 2026"
    /\ exBuffer.text.tracking = Null
    /\ exBuffer.text.buyer # NoBuyer
    /\ extracted.value.date = "Foo 22, 2026"
    /\ extracted.value.tracking = "-"
    /\ extracted.value.buyerName = "Jane Doe"
    /\ extracted.value.buyerUsername = "janedoe"

\* ---------------------------------------------------------- extractBulkSlips
\* The object orderPages is a sequence of entries [id, indices] in the order in
\* which the keys were first written.
HasKey(o, id) == \E k \in 1..Len(o) : o[k].id = id
Get(o, id) == o[CHOOSE k \in 1..Len(o) : o[k].id = id].indices

\* Object.entries lists the keys that are array indices (canonical numbers below
\* 2^32 - 1) in ascending numeric order, then the other keys in insertion order.
ArrayIndexValue ==
    [id \in {"111", "222", "333"} |->
        CASE id = "111" -> 111 [] id = "222" -> 222 [] OTHER -> 333]
IsArrayIndex(id) == id \in DOMAIN ArrayIndexValue

RECURSIVE SortedIndexKeys(_)
SortedIndexKeys(S) ==
    IF S = {} THEN <<>>
    ELSE LET m == CHOOSE x \in S :
                      \A y \in S : ArrayIndexValue[x] <= ArrayIndexValue[y]
         IN  <<m>> \o SortedIndexKeys(S \ {m})

ObjectEntries(o) ==
    LET indexKeys == {o[k].id : k \in {j \in 1..Len(o) : IsArrayIndex(o[j].id)}}
        first == SortedIndexKeys(indexKeys)
        rest == SelectSeq(o, LAMBDA e : ~IsArrayIndex(e.id))
    IN  [k \in 1..Len(first) |-> [id |-> first[k], indices |-> Get(o, first[k])]]
        \o rest

\* Mutant: a page without an identifier resets the cursor (no inheritance).
UpdateCursorNoCarry(cursor, meta) ==
    IF meta # NullObj THEN meta.id ELSE Null

\* if (meta && meta.id) currentOrderId = meta.id;
UpdateCursor(cursor, meta) ==
    IF meta # NullObj THEN meta.id ELSE cursor

\* Mutant: the page is recorded even while the cursor is null.
AppendPageUnguarded(o, cursor, i) ==
    IF HasKey(o, cursor)
    THEN [k \in 1..Len(o) |->
             IF o[k].id = cursor
             THEN [o[k] EXCEPT !.indices = Append(@, i)] ELSE o[k]]
    ELSE Append(o, [id |-> cursor, indices |-> <<i>>])

\* Mutant: the list is created anew on every page (no "if (!orderPages[id])").
AppendPageOverwrite(o, cursor, i) ==
    IF cursor = Null THEN o
    ELSE IF HasKey(o, cursor)
    THEN [k \in 1..Len(o) |->
             IF o[k].id = cursor THEN [o[k] EXCEPT !.indices = <<i>>] ELSE o[k]]
    ELSE Append(o, [id |-> cursor, indices |-> <<i>>])

\* if (currentOrderId) { if (!orderPages[id]) orderPages[id] = [];
\*                        orderPages[id].push(i); }
AppendPage(o, cursor, i) ==
    IF cursor = Null THEN o
    ELSE IF HasKey(o, cursor)
    THEN [k \in 1..Len(o) |->
             IF o[k].id = cursor
             THEN [o[k] EXCEPT !.indices = Append(@, i)] ELSE o[k]]
    ELSE Append(o, [id |-> cursor, indices |-> <<i>>])

\* The second loop: one slip per entry, its document made of the pages indices.
BuildSlips(o) ==
    LET entries == ObjectEntries(o)
    IN  [k \in 1..Len(entries) |->
            [id |-> entries[k].id, buffer |-> entries[k].indices,
             originalName |-> entries[k].id]]

SlipPageBuffers ==
    {Unparseable}
    \cup {Parsed(PlainText(ids)) : ids \in SeqUpTo(IdToken, MaxTextIds)}

SlipInit ==
    /\ slipPc = "scan"
    /\ slipPageCount \in 0..MaxSlipPages
    /\ slipI = 0
    /\ singleBuffer = Unparseable
    /\ foundIds = <<>>
    /\ currentOrderId = Null
    /\ orderPages = <<>>
    /\ extractedSlips = <<>>

SlipIdle ==
    /\ slipPc = "idle"
    /\ slipPageCount = 0
    /\ slipI = 0
    /\ singleBuffer = Unparseable
    /\ foundIds = <<>>
    /\ currentOrderId = Null
    /\ orderPages = <<>>
    /\ extractedSlips = <<>>

\* One iteration of the first loop, on the page of index slipI whose single-page
\* buffer is page.
SlipScanPage ==
    /\ slipPc = "scan"
    /\ slipI < slipPageCount
    /\ \E page \in SlipPageBuffers :
          LET meta == extractLabelData(page).value
              cursor == UpdateCursor(currentOrderId, meta)
          IN  /\ singleBuffer' = page
              /\ foundIds' = Append(foundIds, IF meta # NullObj THEN meta.id ELSE Null)
              /\ currentOrderId' = cursor
              /\ orderPages' = AppendPage(orderPages, cursor, slipI)
    /\ slipI' = slipI + 1
    /\ UNCHANGED <<slipPc, slipPageCount, extractedSlips>>
    /\ UNCHANGED <<extractVars, labelVars, mergeVars, processVars, splitVars,
                   serverVars>>

\* The first loop has ended: the second loop builds the groups and returns them.
SlipReturn ==
    /\ slipPc = "scan"
    /\ slipI = slipPageCount
    /\ extractedSlips' = BuildSlips(orderPages)
    /\ slipPc' = "done"
    /\ UNCHANGED <<slipPageCount, slipI, singleBuffer, foundIds, currentOrderId,
                   orderPages>>
    /\ UNCHANGED <<extractVars, labelVars, mergeVars, processVars, splitVars,
                   serverVars>>

\* ------------------------------------------------- properties of the grouper
Range(seq) == {seq[k] : k \in 1..Len(seq)}

\* Page p (from 0) is at or after a scanned page on which an identifier was found.
HasIdAtOrBefore(p) == \E q \in 0..p : foundIds[q + 1] # Null
\* The identifier of the nearest such page.
NearestId(p) ==
    foundIds[(CHOOSE q \in 0..p :
                 /\ foundIds[q + 1] # Null
                 /\ \A r \in (q + 1)..p : foundIds[r + 1] = Null) + 1]

\* The identifier the text of a single-page buffer carries, read off its
\* occurrences: the first "Order ID:" one if any, else the first one.
CarriedId(buf) ==
    IF ~buf.parses \/ buf.text.ids = <<>> THEN Null
    ELSE IF \E k \in 1..Len(buf.text.ids) : buf.text.ids[k].kind = "OrderIdColon"
    THEN LET k == CHOOSE k \in 1..Len(buf.text.ids) :
                      /\ buf.text.ids[k].kind = "OrderIdColon"
                      /\ \A j \in 1..(k - 1) : buf.text.ids[j].kind = "OrderHash"
         IN  buf.text.ids[k].id
    ELSE buf.text.ids[1].id

\* C1: the scan carries one cursor, null at first, set to a page's identifier
\* when the page has one; every scanned page at or after the first
\* identifier-bearing page is in the group of the nearest identifier-bearing
\* page at or before it, in the page map and in the returned groups.
C1_NearestIdGroup ==
    /\ slipI = 0 => currentOrderId = Null
    /\ slipI > 0 =>
          /\ foundIds[slipI] = CarriedId(singleBuffer)
          /\ currentOrderId =
                IF HasIdAtOrBefore(slipI - 1) THEN NearestId(slipI - 1) ELSE Null
    /\ \A p \in 0..(slipI - 1) :
          HasIdAtOrBefore(p) =>
              /\ HasKey(orderPages, NearestId(p))
              /\ p \in Range(Get(orderPages, NearestId(p)))
              /\ slipPc = "done" =>
                    \E g \in 1..Len(extractedSlips) :
                        /\ extractedSlips[g].id = NearestId(p)
                        /\ p \in Range(extractedSlips[g].buffer)

\* Pages with ids A, none, B have been grouped as A -> [0,1], B -> [2].
C1_Witness ==
    /\ slipPc = "done"
    /\ foundIds = <<"111", Null, "222">>
    /\ extractedSlips =
          <<[id |-> "111", buffer |-> <<0, 1>>, originalName |-> "111"],
            [id |-> "222", buffer |-> <<2>>, originalName |-> "222"]>>

\* C9: no group holds a page that precedes the first identifier-bearing page,
\* and a document without any identifier yields no group.
C9_LeadingPagesDropped ==
    /\ \A k \in 1..Len(orderPages) :
          \A p \in Range(orderPages[k].indices) : HasIdAtOrBefore(p)
    /\ slipPc = "done" =>
          /\ \A g \in 1..Len(extractedSlips) :
                \A p \in Range(extractedSlips[g].buffer) : HasIdAtOrBefore(p)
          /\ (\A q \in 1..Len(foundIds) : foundIds[q] = Null) =>
                extractedSlips = <<>>

\* Two pages without identifier came before the first identifier: they are in no
\* group.
C9_Witness ==
    /\ slipPc = "done"
    /\ foundIds = <<Null, Null, "111">>
    /\ extractedSlips =
          <<[id |-> "111", buffer |-> <<2>>, originalName |-> "111"]>>

\* C10: the returned groups are one per distinct identifier found; a group holds
\* every page on which its identifier was found (a reappearing identifier
\* extends its group); a page index is in at most one group; the indices of a
\* group are strictly ascending.
C10_OneGroupPerId ==
    slipPc = "done" =>
        /\ {extractedSlips[g].id : g \in 1..Len(extractedSlips)}
              = Range(foundIds) \ {Null}
        /\ \A g, h \in 1..Len(extractedSlips) :
              g # h =>
                  /\ extractedSlips[g].id # extractedSlips[h].id
                  /\ Range(extractedSlips[g].buffer)
                        \cap Range(extractedSlips[h].buffer) = {}
        /\ \A g \in 1..Len(extractedSlips) :
              LET pages == extractedSlips[g].buffer
              IN  /\ \A a, b \in 1..Len(pages) : a < b => pages[a] < pages[b]
                  /\ \A q \in 1..Len(foundIds) :
                        foundIds[q] = extractedSlips[g].id =>
                            (q - 1) \in Range(pages)

\* Pages with ids A, B, A have been grouped as A -> [0,2], B -> [1].
C10_Witness ==
    /\ slipPc = "done"
    /\ foundIds = <<"111", "222", "111">>
    /\ extractedSlips =
          <<[id |-> "111", buffer |-> <<0, 2>>, originalName |-> "111"],
            [id |-> "222", buffer |-> <<1>>, originalName |-> "222"]>>

\* C11 (as claimed): the identifier of a page is the first occurrence, in
\* textual order, of the pattern Order (#|ID) [:\s]* digits in the page's text; a
\* later occurrence is never chosen over an earlier one.
C11_FirstRule2Match ==
    slipI > 0 =>
        foundIds[slipI] =
            IF singleBuffer.parses /\ Len(singleBuffer.text.ids) > 0
            THEN singleBuffer.text.ids[1].id
            ELSE Null

\* C11 (amended): the identifier of a page is one occurrence of the page's text
\* (single match): the first "Order ID:" occurrence when the text has one, even
\* after an earlier "Order #" occurrence, and the first occurrence of the general
\* pattern otherwise; none when the text has no occurrence or cannot be read.
C11_FirstOrderIdColonElseFirstMatch ==
    slipI > 0 =>
        LET ids == IF singleBuffer.parses THEN singleBuffer.text.ids ELSE <<>>
            colon == {k \in 1..Len(ids) : ids[k].kind = "OrderIdColon"}
        IN  /\ ids = <<>> => foundIds[slipI] = Null
            /\ ids # <<>> =>
                  \E k \in 1..Len(ids) :
                      /\ foundIds[slipI] = ids[k].id
                      /\ colon # {} => (k \in colon /\ \A j \in colon : k <= j)
                      /\ colon = {} => k = 1

\* A page whose text reads "Order #111 ... Order ID: 222" has been scanned: its
\* identifier is 222, the later occurrence.
C11_Witness ==
    /\ slipI > 0
    /\ singleBuffer.parses
    /\ Len(singleBuffer.text.ids) = 2
    /\ singleBuffer.text.ids[1] = [kind |-> "OrderHash", id |-> "111"]
    /\ singleBuffer.text.ids[2] = [kind |-> "OrderIdColon", id |-> "222"]
    /\ foundIds[slipI] = "222"
    /\ currentOrderId = "222"

\* --------------------------------------------------------- extractBulkLabels
\* Mutant: the marker is not looked for.
isSlipNever(buffer) == FALSE

\* isSlip: the text includes the vendor marker; false when pdf-parse rejects.
isSlip(buffer) == buffer.parses /\ buffer.text.marker

\* [...text.matchAll(/Order\s*(?:#|ID)[:\s]*(\d+)/gi)].map(m => m[1])
MatchAllIds(text) == [k \in 1..Len(text.ids) |-> text.ids[k].id]

\* getPageIds: every captured id in textual order, [] when pdf-parse rejects.
getPageIds(buffer) == IF buffer.parses THEN MatchAllIds(buffer.text) ELSE <<>>

\* TOP LOGIC
TopLogic(ids, tIds) ==
    IF Len(tIds) > 0 THEN tIds[1]
    ELSE IF Len(ids) > 0 THEN ids[1]
    ELSE Null

\* Mutant: the bottom falls back to the first id of the page.
BottomLogicFirstId(ids, bIds) ==
    IF Len(bIds) > 0 THEN bIds[1]
    ELSE IF Len(ids) > 0 THEN ids[1]
    ELSE Null

\* BOTTOM LOGIC
BottomLogic(ids, bIds) ==
    IF Len(bIds) > 0 THEN bIds[1]
    ELSE IF Len(ids) >= 2 THEN ids[2]
    ELSE Null

\* "Avoid duplication if logic assigns same ID to both"
AvoidDuplication(top, bot, ids) ==
    IF top # Null /\ bot # Null /\ top = bot
    THEN IF Len(ids) >= 2
         THEN [top |-> ids[1], bot |-> ids[2]]
         ELSE [top |-> top, bot |-> Null]
    ELSE [top |-> top, bot |-> bot]

\* Mutant: the bottom record of a page is pushed before its top record.
RegisterLabelsBottomFirst(labels, i, top, bot) ==
    LET withBot ==
            IF bot # Null
            THEN Append(labels, [id |-> bot, position |-> "bottom",
                                 buffer |-> [page |-> i, half |-> "bottom"]])
            ELSE labels
    IN  IF top # Null
        THEN Append(withBot, [id |-> top, position |-> "top",
                              buffer |-> [page |-> i, half |-> "top"]])
        ELSE withBot

\* "3. Register Labels": the half documents are named by page and half.
RegisterLabels(labels, i, top, bot) ==
    LET withTop ==
            IF top # Null
            THEN Append(labels, [id |-> top, position |-> "top",
                                 buffer |-> [page |-> i, half |-> "top"]])
            ELSE labels
    IN  IF bot # Null
        THEN Append(withTop, [id |-> bot, position |-> "bottom",
                              buffer |-> [page |-> i, half |-> "bottom"]])
        ELSE withTop

\* The global pattern does not tell the two forms of an occurrence apart: the
\* texts of label pages are drawn with one form.  The loop reads pageIds[0],
\* pageIds[1] and whether pageIds.length >= 2, and of a half only topIds[0] or
\* botIds[0]: page texts are drawn with up to two occurrences, half texts with
\* up to one.
HashToken == [kind : {"OrderHash"}, id : Ids]
LabelPageBuffers ==
    {Unparseable}
    \cup {Parsed(PlainText(ids)) : ids \in SeqUpTo(HashToken, 2)}
LabelHalfBuffers ==
    {Unparseable}
    \cup {Parsed(PlainText(ids)) : ids \in SeqUpTo(HashToken, 1)}
\* The text of the whole document is read by isSlip only: a document without
\* the marker is drawn with an empty text, a document with it with or without
\* an order id.
LabelDocBuffers ==
    {Unparseable, Parsed(PlainText(<<>>))}
    \cup {Parsed([PlainText(ids) EXCEPT !.marker = TRUE]) :
              ids \in SeqUpTo(HashToken, 1)}

LabelInit ==
    /\ labelPc = "start"
    /\ labelDoc \in LabelDocBuffers
    /\ labelPageCount \in 0..MaxLabelPages
    /\ labelI = 0
    /\ pageIds = <<>>
    /\ topIds = <<>>
    /\ botIds = <<>>
    /\ topAssigned = Null
    /\ botAssigned = Null
    /\ finalTopId = Null
    /\ finalBotId = Null
    /\ extractedLabels = <<>>

LabelIdle ==
    /\ labelPc = "idle"
    /\ labelDoc = Unparseable
    /\ labelPageCount = 0
    /\ labelI = 0
    /\ pageIds = <<>>
    /\ topIds = <<>>
    /\ botIds = <<>>
    /\ topAssigned = Null
    /\ botAssigned = Null
    /\ finalTopId = Null
    /\ finalBotId = Null
    /\ extractedLabels = <<>>

\* if (await isSlip(buffer)) return [];
LabelSkipSlip ==
    /\ labelPc = "start"
    /\ isSlip(labelDoc)
    /\ labelPc' = "done"
    /\ UNCHANGED <<labelDoc, labelPageCount, labelI, pageIds, topIds,
                   botIds, topAssigned, botAssigned, finalTopId, finalBotId,
                   extractedLabels>>
    /\ UNCHANGED <<extractVars, slipVars, mergeVars, processVars, splitVars,
                   serverVars>>

LabelLoad ==
    /\ labelPc = "start"
    /\ ~isSlip(labelDoc)
    /\ labelPc' = "scan"
    /\ UNCHANGED <<labelDoc, labelPageCount, labelI, pageIds, topIds,
                   botIds, topAssigned, botAssigned, finalTopId, finalBotId,
                   extractedLabels>>
    /\ UNCHANGED <<extractVars, slipVars, mergeVars, processVars, splitVars,
                   serverVars>>

\* One iteration of the page loop, on the page of index labelI, whose single-page
\* buffer is page and whose half buffers are top and bot.
LabelScanPage ==
    /\ labelPc = "scan"
    /\ labelI < labelPageCount
    /\ \E page \in LabelPageBuffers, top \in LabelHalfBuffers,
          bot \in LabelHalfBuffers :
          LET t == TopLogic(getPageIds(page), getPageIds(top))
              b == BottomLogic(getPageIds(page), getPageIds(bot))
              final == AvoidDuplication(t, b, getPageIds(page))
          IN  /\ pageIds' = getPageIds(page)
              /\ topIds' = getPageIds(top)
              /\ botIds' = getPageIds(bot)
              /\ topAssigned' = t
              /\ botAssigned' = b
              /\ finalTopId' = final.top
              /\ finalBotId' = final.bot
              /\ extractedLabels' =
                    RegisterLabels(extractedLabels, labelI, final.top, final.bot)
    /\ labelI' = labelI + 1
    /\ UNCHANGED <<labelPc, labelDoc, labelPageCount>>
    /\ UNCHANGED <<extractVars, slipVars, mergeVars, processVars, splitVars,
                   serverVars>>

LabelReturn ==
    /\ labelPc = "scan"
    /\ labelI = labelPageCount
    /\ labelPc' = "done"
    /\ UNCHANGED <<labelDoc, labelPageCount, labelI, pageIds, topIds,
                   botIds, topAssigned, botAssigned, finalTopId, finalBotId,
                   extractedLabels>>
    /\ UNCHANGED <<extractVars, slipVars, mergeVars, processVars, splitVars,
                   serverVars>>

\* -------------------------------------------------------------- processLabels
DEFAULT_CROP ==
    [visualTopMargin |-> 40, visualBottomMargin |-> 40,
     visualLeftMargin |-> 10, visualRightMargin |-> 40]
BULK_CROP_TOP ==
    [visualTopMargin |-> 70, visualBottomMargin |-> 70,
     visualLeftMargin |-> 27, visualRightMargin |-> 64]
BULK_CROP_BOTTOM ==
    [visualTopMargin |-> 70, visualBottomMargin |-> 70,
     visualLeftMargin |-> 64, visualRightMargin |-> 28]

\* Page heights: a Letter page and a half page ("~792 points high", "~396").
LetterHeight == 792
HalfHeight == 396
AutoDetectMinHeight == 600
\* "if (height < 500)": below it the page is taken for a half sheet.
HalfSheetMaxHeight == 500

\* The width of a Letter page, in points.
LetterWidth == 612

\* A document handed to processLabels: a name for the document itself, what
\* pdf-parse gives for it, the size of its first page and its number of pages.
DocumentOf(doc, buffer, width, height, pageCount) ==
    [doc |-> doc, parses |-> buffer.parses, text |-> buffer.text,
     width |-> width, height |-> height, pageCount |-> pageCount]

\* A single-page document of Letter width.
Document(doc, buffer, height) == DocumentOf(doc, buffer, LetterWidth, height, 1)

\* options = {} : no isBulk, no position.
NoOptions == [isBulk |-> FALSE, position |-> Null]

\* Mutant: the last occurrence is taken (lastIndexOf).
IndexOfLast(seq, x) ==
    IF \E k \in 1..Len(seq) : seq[k] = x
    THEN (CHOOSE k \in 1..Len(seq) :
              seq[k] = x /\ \A j \in (k + 1)..Len(seq) : seq[j] # x) - 1
    ELSE -1

\* matches.indexOf(x), from 0, -1 when absent.
IndexOf(seq, x) ==
    IF \E k \in 1..Len(seq) : seq[k] = x
    THEN (CHOOSE k \in 1..Len(seq) :
              seq[k] = x /\ \A j \in 1..(k - 1) : seq[j] # x) - 1
    ELSE -1

\* Mutant: the index of the target among the matches is not looked at.
AutoDetectAlwaysTop(label1, label2, layout) ==
    IF label1.parses /\ Len(MatchAllIds(label1.text)) > 0
    THEN [isBulk |-> TRUE, position |-> "top"]
    ELSE layout

\* The auto-detection block (inside its own try/catch): the layout decision
\* [isBulk, position] it leaves, given the one it starts from.
AutoDetect(label1, label2, layout) ==
    LET slipMeta == extractLabelData(label2).value
        targetOrderId == IF slipMeta # NullObj THEN slipMeta.id ELSE Null
    IN  IF targetOrderId # Null
        THEN IF ~label1.parses THEN layout
             ELSE LET matches == MatchAllIds(label1.text)
                      index == IndexOf(matches, targetOrderId)
                  IN  IF Len(matches) = 0 THEN layout
                      ELSE IF index # -1
                      THEN [isBulk |-> TRUE,
                            position |-> IF index = 1 THEN "bottom" ELSE "top"]
                      ELSE [isBulk |-> TRUE, position |-> "top"]
        ELSE IF extractLabelData(label1).value # NullObj
             THEN [isBulk |-> TRUE, position |-> "top"]
             ELSE layout

\* Mutant: the auto-detection also runs when options.isBulk is given.
LayoutOfAlwaysDetect(label1, label2, options) ==
    LET given == [isBulk |-> options.isBulk,
                  position |-> IF options.position = Null THEN "top"
                               ELSE options.position]
    IN  IF label1.height > AutoDetectMinHeight
        THEN AutoDetect(label1, label2, given)
        ELSE given

\* The layout decision of a call: isBulk and position after the options and
\* the auto-detection.
LayoutOf(label1, label2, options) ==
    LET given == [isBulk |-> options.isBulk,
                  position |-> IF options.position = Null THEN "top"
                               ELSE options.position]
    IN  IF ~given.isBulk /\ label1.height > AutoDetectMinHeight
        THEN AutoDetect(label1, label2, given)
        ELSE given

\* Mutant: the position is ignored, a bulk call always crops as a top half.
CropConfigAlwaysTop(layout) ==
    IF layout.isBulk THEN BULK_CROP_TOP ELSE DEFAULT_CROP

\* "Crop Logic"
CropConfig(layout) ==
    IF layout.isBulk
    THEN IF layout.position = "bottom" THEN BULK_CROP_BOTTOM ELSE BULK_CROP_TOP
    ELSE DEFAULT_CROP

\* Mutant: only an Etsy identifier names the file.
FilenameOfEtsyOnly(orderInfo) ==
    IF orderInfo # NullObj /\ orderInfo.type = "etsy"
    THEN orderInfo.id ELSE "combined-label"

\* "Determine filename based on content of Label 2"
FilenameOf(orderInfo) ==
    IF orderInfo # NullObj /\ orderInfo.type \in {"tiktok", "etsy"}
    THEN orderInfo.id ELSE "combined-label"

MetadataOf(orderInfo) ==
    IF orderInfo = NullObj
    THEN [orderId |-> "-", date |-> "-", tracking |-> "-", type |-> "unknown"]
    ELSE [orderId |-> orderInfo.id, date |-> orderInfo.date,
          tracking |-> orderInfo.tracking, type |-> orderInfo.type,
          buyerName |-> IF "buyerName" \in DOMAIN orderInfo
                        THEN orderInfo.buyerName ELSE "-",
          buyerUsername |-> IF "buyerUsername" \in DOMAIN orderInfo
                            THEN orderInfo.buyerUsername ELSE "-"]

\* height / 2: page heights are drawn even, so that the half is exact.
Half(h) == h \div 2

\* Mutant: the visual margins are applied as if the page were not rotated.
CropBoxUnrotated(width, height, config) ==
    IF height < HalfSheetMaxHeight
    THEN [x |-> config.visualLeftMargin,
          y |-> config.visualTopMargin,
          width |-> width - config.visualLeftMargin - config.visualRightMargin,
          height |-> height - config.visualTopMargin - config.visualBottomMargin]
    ELSE [x |-> config.visualLeftMargin,
          y |-> Half(height) + config.visualTopMargin,
          width |-> width - config.visualLeftMargin - config.visualRightMargin,
          height |-> Half(height) - config.visualTopMargin
                        - config.visualBottomMargin]

\* Mutant: no half-sheet branch, every page is cropped as a full sheet.
CropBoxNoHalfSheet(width, height, config) ==
    [x |-> config.visualTopMargin,
     y |-> Half(height) + config.visualLeftMargin,
     width |-> width - config.visualTopMargin - config.visualBottomMargin,
     height |-> Half(height) - config.visualLeftMargin - config.visualRightMargin]

\* Mutant: the full-sheet box keeps the whole height above its origin.
CropBoxFullHeight(width, height, config) ==
    IF height < HalfSheetMaxHeight
    THEN [x |-> config.visualTopMargin,
          y |-> config.visualLeftMargin,
          width |-> width - config.visualTopMargin - config.visualBottomMargin,
          height |-> height - config.visualLeftMargin - config.visualRightMargin]
    ELSE [x |-> config.visualTopMargin,
          y |-> Half(height) + config.visualLeftMargin,
          width |-> width - config.visualTopMargin - config.visualBottomMargin,
          height |-> height - config.visualLeftMargin - config.visualRightMargin]

\* The arguments of page1.setCropBox(x, y, width, height), in the unrotated
\* space of the page; setCropBox stores them as given.
CropBox(width, height, config) ==
    IF height < HalfSheetMaxHeight
    THEN [x |-> config.visualTopMargin,
          y |-> config.visualLeftMargin,
          width |-> width - config.visualTopMargin - config.visualBottomMargin,
          height |-> height - config.visualLeftMargin - config.visualRightMargin]
    ELSE [x |-> config.visualTopMargin,
          y |-> Half(height) + config.visualLeftMargin,
          width |-> width - config.visualTopMargin - config.visualBottomMargin,
          height |-> Half(height) - config.visualLeftMargin
                        - config.visualRightMargin]

\* A page of a source document as copied: rotation 0 stands for the rotation
\* of the source page and NullObj for its crop box, both left as they are.
CopiedPage(doc, index) ==
    [doc |-> doc, index |-> index, rotation |-> 0, cropBox |-> NullObj]

\* "Process Label 1": the first page of label 1, rotated and cropped.
Page1(label1, config) ==
    [CopiedPage(label1.doc, 0) EXCEPT
        !.rotation = 90,
        !.cropBox = CropBox(label1.width, label1.height, config)]

\* Mutant: the pages of label 2 are added last first.
Pages2Reversed(label2) ==
    [k \in 1..label2.pageCount |-> CopiedPage(label2.doc, label2.pageCount - k)]

\* "Process Label 2": every page of label 2, in the order of getPageIndices().
Pages2(label2) ==
    [k \in 1..label2.pageCount |-> CopiedPage(label2.doc, k - 1)]

\* processLabels: pdfOk tells whether the pdf-lib operations (load, copyPages,
\* save) all succeed; when one rejects, the call rejects.  The merged document
\* is its pages; label, config and slip name the label document, the crop
\* profile applied to its first page and the slip document appended.
processLabels(label1, label2, options, pdfOk) ==
    IF ~pdfOk THEN Thrown
    ELSE LET layout == LayoutOf(label1, label2, options)
             orderInfo == extractLabelData(label2).value
         IN  Returned(
                 [pdfBytes |-> [label |-> label1.doc, config |-> CropConfig(layout),
                                slip |-> label2.doc,
                                pages |-> <<Page1(label1, CropConfig(layout))>>
                                              \o Pages2(label2)],
                  filename |-> FilenameOf(orderInfo),
                  metadata |-> MetadataOf(orderInfo)])

\* ---------------------------------------------------- calls of processLabels
\* Sizes of the first page of label 1, in points: a width the bulk margins use
\* up and the Letter width; a height the bulk margins use up, the half and the
\* whole Letter height, and the heights 500 and 600 the code compares with.
PageWidths == {140, LetterWidth}
PageHeights == {92, HalfHeight, HalfSheetMaxHeight, AutoDetectMinHeight, LetterHeight}

\* The text of label 1 is read through the global pattern and through
\* extractLabelData(...).id only: its occurrences are drawn with one form.
ProcessLabelBuffers ==
    {Unparseable}
    \cup {Parsed(PlainText(ids)) : ids \in SeqUpTo(HashToken, MaxTextIds)}

\* The text of label 2: at most one occurrence, of either form, alone or with
\* the date, tracking and buyer blocks.
FullText(ids) ==
    [ids |-> ids, date |-> "Jan 22, 2026", tracking |-> "9400123456",
     buyer |-> [name |-> "Jane Doe", username |-> "janedoe"], marker |-> TRUE]
ProcessSlipBuffers ==
    {Unparseable}
    \cup {Parsed(PlainText(ids)) : ids \in SeqUpTo(IdToken, 1)}
    \cup {Parsed(FullText(ids)) : ids \in SeqUpTo(IdToken, 1)}

\* options: isBulk given or not, position absent, "top", "bottom" or another
\* string.
ProcessOptions == [isBulk : BOOLEAN, position : {Null, "top", "bottom", "left"}]

ProcessInit ==
    /\ \E buffer \in ProcessLabelBuffers, width \in PageWidths,
          height \in PageHeights, pageCount \in 1..MaxPages :
          plLabel1 = DocumentOf("label1", buffer, width, height, pageCount)
    /\ \E buffer \in ProcessSlipBuffers, pageCount \in 0..MaxPages :
          plLabel2 = DocumentOf("label2", buffer, LetterWidth, LetterHeight,
                                pageCount)
    /\ plOptions \in ProcessOptions
    /\ plOutput = Pending

ProcessIdle ==
    /\ plLabel1 = Document("label1", Unparseable, LetterHeight)
    /\ plLabel2 = Document("label2", Unparseable, LetterHeight)
    /\ plOptions = NoOptions
    /\ plOutput = Pending

CallProcessLabels ==
    /\ plOutput = Pending
    /\ \E pdfOk \in BOOLEAN :
          plOutput' = processLabels(plLabel1, plLabel2, plOptions, pdfOk)
    /\ UNCHANGED <<plLabel1, plLabel2, plOptions>>
    /\ UNCHANGED <<extractVars, slipVars, labelVars, mergeVars, splitVars,
                   serverVars>>

\* ------------------------------------------ extractBulkLabels, the page split
\* A half document is the size of its page and where the embedded page is drawn.
\* Mutant: the top half draws the page unshifted.
TopPageUnshifted(width, height) ==
    [size |-> [width |-> width, height |-> Half(height)],
     draw |-> [x |-> 0, y |-> 0, width |-> width, height |-> height]]

\* topDoc.addPage([width, height / 2]);
\* topPage.drawPage(embeddedTop, { x: 0, y: -height / 2, width, height })
TopPage(width, height) ==
    [size |-> [width |-> width, height |-> Half(height)],
     draw |-> [x |-> 0, y |-> 0 - Half(height), width |-> width,
               height |-> height]]

\* botDoc.addPage([width, height / 2]);
\* botPage.drawPage(embeddedBot, { x: 0, y: 0, width, height })
BotPage(width, height) ==
    [size |-> [width |-> width, height |-> Half(height)],
     draw |-> [x |-> 0, y |-> 0, width |-> width, height |-> height]]

NoPage == [size |-> [width |-> 0, height |-> 0],
           draw |-> [x |-> 0, y |-> 0, width |-> 0, height |-> 0]]

SplitSizes == [width : PageWidths, height : PageHeights]

SplitInit ==
    /\ splitPc = "split"
    /\ splitSizes \in SeqUpTo(SplitSizes, MaxLabelPages)
    /\ splitI = 0
    /\ topPage = NoPage
    /\ botPage = NoPage
    /\ splitHalves = <<>>
    /\ splitRun = 1
    /\ firstSplit = <<>>

SplitIdle ==
    /\ splitPc = "idle"
    /\ splitSizes = <<>>
    /\ splitI = 0
    /\ topPage = NoPage
    /\ botPage = NoPage
    /\ splitHalves = <<>>
    /\ splitRun = 1
    /\ firstSplit = <<>>

\* "PREPARE SPLIT BUFFERS" for the page of index splitI.
SplitPage ==
    /\ splitPc = "split"
    /\ splitI < Len(splitSizes)
    /\ LET size == splitSizes[splitI + 1]
       IN  /\ topPage' = TopPage(size.width, size.height)
           /\ botPage' = BotPage(size.width, size.height)
           /\ splitHalves' =
                 Append(splitHalves, [top |-> TopPage(size.width, size.height),
                                      bot |-> BotPage(size.width, size.height)])
    /\ splitI' = splitI + 1
    /\ UNCHANGED <<splitPc, splitSizes, splitRun, firstSplit>>
    /\ UNCHANGED <<extractVars, slipVars, labelVars, mergeVars, processVars,
                   serverVars>>

\* The loop has ended.
SplitReturn ==
    /\ splitPc = "split"
    /\ splitI = Len(splitSizes)
    /\ splitPc' = "done"
    /\ UNCHANGED <<splitSizes, splitI, topPage, botPage, splitHalves, splitRun,
                   firstSplit>>
    /\ UNCHANGED <<extractVars, slipVars, labelVars, mergeVars, processVars,
                   serverVars>>

\* extractBulkLabels is called a second time on the same document.
SplitAgain ==
    /\ splitPc = "done"
    /\ splitRun = 1
    /\ splitRun' = 2
    /\ firstSplit' = splitHalves
    /\ splitHalves' = <<>>
    /\ splitI' = 0
    /\ topPage' = NoPage
    /\ botPage' = NoPage
    /\ splitPc' = "split"
    /\ UNCHANGED splitSizes
    /\ UNCHANGED <<extractVars, slipVars, labelVars, mergeVars, processVars,
                   serverVars>>

\* ------------------------------------------------------ the sort of /merge
\* parseDate: the time of the date, 0 for "-" and for a date that does not parse.
parseDate(dateStr) == IF dateStr = "01/22/2026" THEN 1769040000 ELSE 0

\* The comparator puts a before b.
Before(a, b) ==
    IF parseDate(a.metadata.date) # parseDate(b.metadata.date)
    THEN parseDate(a.metadata.date) > parseDate(b.metadata.date)
    ELSE a.fileDate > b.fileDate

\* results.sort(...): stable, by insertion.
RECURSIVE Insert(_, _)
Insert(sorted, r) ==
    IF sorted = <<>> THEN <<r>>
    ELSE IF Before(r, Head(sorted)) THEN <<r>> \o sorted
    ELSE <<Head(sorted)>> \o Insert(Tail(sorted), r)

RECURSIVE SortResults(_)
SortResults(rs) ==
    IF rs = <<>> THEN <<>>
    ELSE Insert(SortResults(SubSeq(rs, 1, Len(rs) - 1)), rs[Len(rs)])

\* The response: 400 when nothing was produced and something failed.
Respond(rs, es) ==
    IF Len(rs) = 0 /\ Len(es) > 0
    THEN [status |-> 400, results |-> <<>>, errors |-> es]
    ELSE [status |-> 200, results |-> rs, errors |-> es]

\* ------------------------------------------------------- /merge, bulk branch
\* extractedLabels.find(l => l.id === orderId): the first such half, or NullObj.
FindLabel(labels, orderId) ==
    IF \E k \in 1..Len(labels) : labels[k].id = orderId
    THEN labels[CHOOSE k \in 1..Len(labels) :
                    labels[k].id = orderId
                    /\ \A j \in 1..(k - 1) : labels[j].id # orderId]
    ELSE NullObj

\* The half-page document of an extracted half: its text plays no part in a
\* bulk call.
BulkLabelDocument(half) ==
    Document(half.buffer, Parsed(PlainText(<<>>)), HalfHeight)

\* The document of a slip group: its text starts with the identifier of the
\* group, found on the first page of the group.
BulkSlipDocument(slip) ==
    DocumentOf(slip.buffer,
               Parsed(PlainText(<<[kind |-> "OrderHash", id |-> slip.id]>>)),
               LetterWidth, LetterHeight, Len(slip.buffer))

\* Mutant: the position of the half is not passed on.
BulkOptionsNoPosition(half) == [isBulk |-> TRUE, position |-> Null]

\* { isBulk: true, position: matchingLabel.position || "top" }
BulkOptions(half) == [isBulk |-> TRUE, position |-> half.position]

\* The slip groups of a document whose pages carry the identifiers found.
RECURSIVE ScanPages(_, _, _, _)
ScanPages(found, i, cursor, o) ==
    IF i = Len(found) THEN o
    ELSE LET meta == IF found[i + 1] = Null THEN NullObj
                     ELSE [id |-> found[i + 1]]
             next == UpdateCursor(cursor, meta)
         IN  ScanPages(found, i + 1, next, AppendPage(o, next, i))

HalfRecords ==
    {[id |-> id, position |-> pos, buffer |-> [page |-> pg, half |-> pos]] :
        id \in Ids, pos \in {"top", "bottom"}, pg \in 0..(MaxHalves - 1)}

\* What extractBulkLabels can return: halves in page order, the top half of a
\* page before its bottom half.
IsExtraction(labels) ==
    \A k \in 1..(Len(labels) - 1) :
        \/ labels[k].buffer.page < labels[k + 1].buffer.page
        \/ /\ labels[k].buffer.page = labels[k + 1].buffer.page
           /\ labels[k].position = "top"
           /\ labels[k + 1].position = "bottom"

BulkLabelSets == {l \in SeqUpTo(HalfRecords, MaxHalves) : IsExtraction(l)}
BulkSlipSets ==
    {BuildSlips(ScanPages(found, 0, Null, <<>>)) :
        found \in SeqUpTo(Ids \cup {Null}, MaxGroupPages)}

\* Errors are kept as records of the message and of what it names.
\* Mutant: no try/catch around the call; the exception reaches the outer catch,
\* which answers 500 and ends the request.
BulkCatchMissing(slip) ==
    /\ response' = [status |-> 500, results |-> <<>>, errors |-> <<>>]
    /\ mergePc' = "done"
    /\ UNCHANGED <<results, errors, loopK>>

\* catch (e) { errors.push(`Error merging Order ${orderId}: ...`) }
BulkCatch(slip) ==
    /\ errors' = Append(errors, [message |-> "Error merging Order",
                                 orderId |-> slip.id])
    /\ loopK' = loopK + 1
    /\ UNCHANGED <<results, mergePc, response>>

\* The body of the loop for one slip group.
BulkStep(slip, pdfOk) ==
    LET matchingLabel == FindLabel(extractedLabels, slip.id)
    IN  IF matchingLabel # NullObj
        THEN LET label1 == BulkLabelDocument(matchingLabel)
                 label2 == BulkSlipDocument(slip)
                 options == BulkOptions(matchingLabel)
                 output == processLabels(label1, label2, options, pdfOk)
             IN  /\ calls' = Append(calls, [label1 |-> label1.doc,
                                           label2 |-> label2.doc,
                                           options |-> options])
                 /\ IF output.threw
                    THEN BulkCatch(slip)
                    ELSE /\ results' = Append(results,
                                [filename |-> output.value.filename,
                                 pdfBase64 |-> output.value.pdfBytes,
                                 metadata |-> output.value.metadata,
                                 fileDate |-> 0])
                         /\ loopK' = loopK + 1
                         /\ UNCHANGED <<errors, mergePc, response>>
        ELSE /\ errors' = Append(errors,
                    [message |-> "No label found for Order ID",
                     orderId |-> slip.id])
             /\ loopK' = loopK + 1
             /\ UNCHANGED <<results, calls, mergePc, response>>

\* "1. Identify which is Labels and which is Slips": 400 when neither file
\* gave a label.
BulkIdentify ==
    /\ mergePc = "start"
    /\ isBulk
    /\ IF extractedLabels = <<>>
       THEN /\ response' = [status |-> 400, results |-> <<>>, errors |-> <<>>]
            /\ mergePc' = "done"
       ELSE /\ mergePc' = "bulk"
            /\ UNCHANGED response
    /\ UNCHANGED <<isBulk, fileObjects, shippingLabels, orderSlips,
                   labelContentCache, loopK, results, errors, calls>>
    /\ UNCHANGED <<extractVars, slipVars, labelVars, processVars, splitVars,
                   serverVars>>

\* One iteration of "3. Match and Process".
BulkSlipStep ==
    /\ mergePc = "bulk"
    /\ loopK < Len(extractedSlips)
    /\ \E pdfOk \in BOOLEAN : BulkStep(extractedSlips[loopK + 1], pdfOk)
    /\ UNCHANGED <<isBulk, fileObjects, shippingLabels, orderSlips,
                   labelContentCache>>
    /\ UNCHANGED <<extractVars, slipVars, labelVars, processVars, splitVars,
                   serverVars>>

\* ---------------------------------------------------------- processFilePairs
\* A file name is modelled by what the code asks of it: whether it includes
\* "label", and which order id it includes.  The order id in a name is read
\* only for the files classified as labels (label in the name, no marker in the
\* text), so the other files are drawn with names that include none.
FileBuffers(m) ==
    {Parsed([PlainText(ids) EXCEPT !.marker = m]) : ids \in SeqUpTo(HashToken, 1)}
FileRecords ==
    [originalName : [label : {TRUE}, id : Ids \cup {Null}],
     buffer : FileBuffers(FALSE) \cup {Unparseable}]
    \cup [originalName : [label : {TRUE}, id : {Null}], buffer : FileBuffers(TRUE)]
    \cup [originalName : [label : {FALSE}, id : {Null}],
          buffer : FileBuffers(FALSE) \cup FileBuffers(TRUE) \cup {Unparseable}]

\* lastModified: the files carry increasing times.
Stamped(files) ==
    [k \in 1..Len(files) |->
        [originalName |-> files[k].originalName, buffer |-> files[k].buffer,
         lastModified |-> k]]

\* Mutant: the pattern is not global, only the first occurrence is returned.
getIdsFromPdfFirstOnly(buffer) ==
    IF buffer.parses /\ Len(buffer.text.ids) > 0
    THEN <<buffer.text.ids[1].id>> ELSE <<>>

\* getIdsFromPdf: every captured id, [] when pdf-parse rejects.
getIdsFromPdf(buffer) == IF buffer.parses THEN MatchAllIds(buffer.text) ELSE <<>>

CallGetIdsFromPdf ==
    /\ pdfIds = Pending
    /\ pdfIds' = Returned(getIdsFromPdf(exBuffer))
    /\ UNCHANGED <<exBuffer, extracted>>
    /\ UNCHANGED <<slipVars, labelVars, mergeVars, processVars, splitVars,
                   serverVars>>

\* C22: getIdsFromPdf returns, for a text that can be read, the captured
\* digits of every occurrence of the order-id pattern, of either form, in
\* textual order, an identifier that occurs twice being returned twice; it
\* returns the empty sequence when there is no occurrence and when text
\* extraction fails.
C22_AllIdsInOrder ==
    pdfIds # Pending =>
        /\ ~pdfIds.threw
        /\ ~exBuffer.parses => pdfIds.value = <<>>
        /\ exBuffer.parses =>
              /\ Len(pdfIds.value) = Len(exBuffer.text.ids)
              /\ \A k \in 1..Len(exBuffer.text.ids) :
                    pdfIds.value[k] = exBuffer.text.ids[k].id

\* The text "Order #111 ... Order ID: 111" gives 111 twice.
C22_Witness ==
    /\ pdfIds # Pending
    /\ exBuffer.parses
    /\ exBuffer.text.ids = <<[kind |-> "OrderHash", id |-> "111"],
                             [kind |-> "OrderIdColon", id |-> "111"]>>
    /\ pdfIds.value = <<"111", "111">>

\* "Classification with Content Check"
IsOrderSlip(f) == isSlip(f.buffer) \/ ~f.originalName.label

\* labelContentCache: keyed by file name, a later label of the same name
\* overwrites an earlier one.
CacheOf(labels) ==
    [name \in {labels[k].originalName : k \in 1..Len(labels)} |->
        LET last == CHOOSE k \in 1..Len(labels) :
                        /\ labels[k].originalName = name
                        /\ \A j \in (k + 1)..Len(labels) :
                              labels[j].originalName # name
        IN  getIdsFromPdf(labels[last].buffer)]

\* "1. Try Filename Match", then "2. Try Content Match".
FindMatchingLabel(labels, cache, orderId) ==
    LET byName == {k \in 1..Len(labels) : labels[k].originalName.id = orderId}
        byContent == {k \in 1..Len(labels) :
                         orderId \in Range(cache[labels[k].originalName])}
        First(S) == CHOOSE k \in S : \A j \in S : k <= j
    IN  IF byName # {} THEN labels[First(byName)]
        ELSE IF byContent # {} THEN labels[First(byContent)]
        ELSE NullObj

Max(a, b) == IF a >= b THEN a ELSE b

\* catch (e) { errors.push(`Error processing ${slip.originalName}: ...`) }
PairsCatch(slip) ==
    /\ errors' = Append(errors, [message |-> "Error processing",
                                 file |-> slip.originalName])
    /\ loopK' = loopK + 1
    /\ UNCHANGED <<results, mergePc, response>>

\* The body of the loop for one slip file.
PairsStep(slip, pdfOk) ==
    LET metadata == extractLabelData(slip.buffer).value
    IN  IF metadata = NullObj
        THEN /\ errors' = Append(errors,
                    [message |-> "Could not find Order ID in file",
                     file |-> slip.originalName])
             /\ loopK' = loopK + 1
             /\ UNCHANGED <<results, calls, mergePc, response>>
        ELSE LET matchingLabel ==
                     FindMatchingLabel(shippingLabels, labelContentCache,
                                       metadata.id)
             IN  IF matchingLabel # NullObj
                 THEN LET label1 == Document(matchingLabel.originalName,
                                             matchingLabel.buffer, LetterHeight)
                          label2 == Document(slip.originalName, slip.buffer,
                                             LetterHeight)
                          output == processLabels(label1, label2, NoOptions,
                                                  pdfOk)
                      IN  /\ calls' = Append(calls, [label1 |-> label1.doc,
                                                    label2 |-> label2.doc,
                                                    options |-> NoOptions])
                          /\ IF output.threw
                             THEN PairsCatch(slip)
                             ELSE /\ results' = Append(results,
                                         [filename |-> output.value.filename,
                                          pdfBase64 |-> output.value.pdfBytes,
                                          metadata |-> output.value.metadata,
                                          fileDate |->
                                              Max(slip.lastModified,
                                                  matchingLabel.lastModified)])
                                  /\ loopK' = loopK + 1
                                  /\ UNCHANGED <<errors, mergePc, response>>
                 ELSE /\ errors' = Append(errors,
                             [message |->
                                  "No matching shipping label found for Order ID",
                              orderId |-> metadata.id,
                              file |-> slip.originalName])
                      /\ loopK' = loopK + 1
                      /\ UNCHANGED <<results, calls, mergePc, response>>

\* The classification loop and the pre-scan of the labels.
PairsClassify ==
    /\ mergePc = "start"
    /\ ~isBulk
    /\ shippingLabels' = SelectSeq(fileObjects, LAMBDA f : ~IsOrderSlip(f))
    /\ orderSlips' = SelectSeq(fileObjects, IsOrderSlip)
    /\ labelContentCache' =
           CacheOf(SelectSeq(fileObjects, LAMBDA f : ~IsOrderSlip(f)))
    /\ mergePc' = "pairs"
    /\ UNCHANGED <<isBulk, fileObjects, loopK, results, errors, calls, response>>
    /\ UNCHANGED <<extractVars, slipVars, labelVars, processVars, splitVars,
                   serverVars>>

\* One iteration of "for (const slip of orderSlips)".
PairsSlipStep ==
    /\ mergePc = "pairs"
    /\ loopK < Len(orderSlips)
    /\ \E pdfOk \in BOOLEAN : PairsStep(orderSlips[loopK + 1], pdfOk)
    /\ UNCHANGED <<isBulk, fileObjects, shippingLabels, orderSlips,
                   labelContentCache>>
    /\ UNCHANGED <<extractVars, slipVars, labelVars, processVars, splitVars,
                   serverVars>>

\* The loop has ended: the results are sorted and the response is sent.
MergeRespond ==
    /\ \/ mergePc = "bulk" /\ loopK = Len(extractedSlips)
       \/ mergePc = "pairs" /\ loopK = Len(orderSlips)
    /\ results' = SortResults(results)
    /\ response' = Respond(SortResults(results), errors)
    /\ mergePc' = "done"
    /\ UNCHANGED <<isBulk, fileObjects, shippingLabels, orderSlips,
                   labelContentCache, loopK, errors, calls>>
    /\ UNCHANGED <<extractVars, slipVars, labelVars, processVars, splitVars,
                   serverVars>>

MergeInit ==
    /\ mergePc = "start"
    /\ isBulk \in BOOLEAN
    /\ IF isBulk
       THEN /\ fileObjects = <<>>
            /\ extractedLabels \in BulkLabelSets
            /\ extractedSlips \in BulkSlipSets
       ELSE /\ \E n \in 1..MaxFiles :
                 \E files \in [1..n -> FileRecords] : fileObjects = Stamped(files)
            /\ extractedLabels = <<>>
            /\ extractedSlips = <<>>
    /\ shippingLabels = <<>>
    /\ orderSlips = <<>>
    /\ labelContentCache = <<>>
    /\ loopK = 0
    /\ results = <<>>
    /\ errors = <<>>
    /\ calls = <<>>
    /\ response = NullObj
    \* the extraction functions have returned
    /\ slipPc = "idle"
    /\ slipPageCount = 0
    /\ slipI = 0
    /\ singleBuffer = Unparseable
    /\ foundIds = <<>>
    /\ currentOrderId = Null
    /\ orderPages = <<>>
    /\ labelPc = "idle"
    /\ labelDoc = Unparseable
    /\ labelPageCount = 0
    /\ labelI = 0
    /\ pageIds = <<>>
    /\ topIds = <<>>
    /\ botIds = <<>>
    /\ topAssigned = Null
    /\ botAssigned = Null
    /\ finalTopId = Null
    /\ finalBotId = Null

MergeIdle ==
    /\ mergePc = "idle"
    /\ isBulk = FALSE
    /\ fileObjects = <<>>
    /\ shippingLabels = <<>>
    /\ orderSlips = <<>>
    /\ labelContentCache = <<>>
    /\ loopK = 0
    /\ results = <<>>
    /\ errors = <<>>
    /\ calls = <<>>
    /\ response = NullObj

\* ------------------------------------------ properties of the reconciliation
\* C2 (as claimed): whatever the three lists are, a page never yields a top and
\* a bottom record with the same id, and when a single distinct identifier
\* exists on the page and both halves were assigned it, the bottom is cleared.
C2_NoSameIdOnBothHalves ==
    labelI > 0 =>
        /\ ~(finalTopId # Null /\ finalBotId # Null /\ finalTopId = finalBotId)
        /\ (/\ Cardinality(Range(pageIds) \cup Range(topIds) \cup Range(botIds)) = 1
            /\ topAssigned # Null
            /\ botAssigned # Null) =>
              (finalTopId = topAssigned /\ finalBotId = Null)

\* C3: before the duplicate check the top is topIds[0], else pageIds[0], else
\* none, and the bottom is botIds[0], else pageIds[1] when the page has two
\* ids, else none; when the two differ (or are both none) they are final.
C3_Assignments ==
    labelI > 0 =>
        /\ topAssigned =
              (IF topIds # <<>> THEN Head(topIds)
               ELSE IF pageIds # <<>> THEN Head(pageIds) ELSE Null)
        /\ botAssigned =
              (IF botIds # <<>> THEN Head(botIds)
               ELSE IF Len(pageIds) >= 2 THEN Head(Tail(pageIds)) ELSE Null)
        /\ (topAssigned # botAssigned \/ topAssigned = Null) =>
              (finalTopId = topAssigned /\ finalBotId = botAssigned)

\* Page ids ["111","222"] with nothing found in either half: top 111, bottom
\* 222, both registered.
C3_Witness ==
    /\ labelI = 1
    /\ pageIds = <<"111", "222">>
    /\ topIds = <<>>
    /\ botIds = <<>>
    /\ finalTopId = "111"
    /\ finalBotId = "222"
    /\ Len(extractedLabels) = 2
    /\ extractedLabels[1].id = "111" /\ extractedLabels[1].position = "top"
    /\ extractedLabels[2].id = "222" /\ extractedLabels[2].position = "bottom"

\* C21: a call on a document that parses and whose text has the vendor marker
\* ends at once, with no record and no page examined, whatever identifiers the
\* text has; a document without the marker, or on which text extraction fails,
\* is not taken for a slip and all its pages are examined.
C21_SlipShortCircuit ==
    LET marked == labelDoc.parses /\ labelDoc.text.marker
    IN  /\ (labelPc # "start" /\ marked) =>
              /\ labelPc = "done"
              /\ labelI = 0
              /\ extractedLabels = <<>>
        /\ (labelPc = "done" /\ ~marked) => labelI = labelPageCount
        /\ (labelPc = "scan" /\ labelI > 0) => ~marked

\* A two-page document with the marker and the order id 111 has returned no
\* record, no page having been examined.
C21_Witness ==
    /\ labelPc = "done"
    /\ labelDoc.parses
    /\ labelDoc.text.marker
    /\ MatchAllIds(labelDoc.text) = <<"111">>
    /\ labelPageCount = 2
    /\ labelI = 0
    /\ extractedLabels = <<>>

\* C26: each page examined adds to the records exactly one record for each of
\* its non-null final assignments, the top id with the top half document and
\* position "top", then the bottom id with the bottom half document and
\* position "bottom": nothing for a page without assignment, at most one top
\* and one bottom record for a page, the records of earlier pages kept before
\* them; no other step changes the records.
C26_OneRecordPerAssignment ==
    [][IF labelI' # labelI
       THEN extractedLabels' =
                extractedLabels
                \o (IF finalTopId' # Null
                    THEN <<[id |-> finalTopId', position |-> "top",
                            buffer |-> [page |-> labelI, half |-> "top"]]>>
                    ELSE <<>>)
                \o (IF finalBotId' # Null
                    THEN <<[id |-> finalBotId', position |-> "bottom",
                            buffer |-> [page |-> labelI, half |-> "bottom"]]>>
                    ELSE <<>>)
       ELSE extractedLabels' = extractedLabels]_vars

\* A document of two pages has returned three records: the two halves of its
\* first page, top before bottom, then the bottom half alone of its second.
C26_Witness ==
    /\ labelPc = "done"
    /\ labelPageCount = 2
    /\ Len(extractedLabels) = 3
    /\ extractedLabels[1].position = "top" /\ extractedLabels[1].buffer.page = 0
    /\ extractedLabels[2].position = "bottom"
    /\ extractedLabels[2].buffer = [page |-> 0, half |-> "bottom"]
    /\ extractedLabels[3].position = "bottom" /\ extractedLabels[3].buffer.page = 1
    /\ finalTopId = Null

\* ------------------------------------------------- properties of the merge
\* The bulk branch has run its loop (a label file was identified).
BulkLoopRan == isBulk /\ mergePc = "done" /\ extractedLabels # <<>>

ErrorNames(es, orderId) ==
    \E e \in 1..Len(es) : "orderId" \in DOMAIN es[e] /\ es[e].orderId = orderId

\* C4 (as claimed): every slip group without a half of its order id and every
\* half without a slip group of its order id is reported in the errors of the
\* response.
C4_UnmatchedReported ==
    BulkLoopRan =>
        /\ \A g \in 1..Len(extractedSlips) :
              (\A h \in 1..Len(extractedLabels) :
                   extractedLabels[h].id # extractedSlips[g].id)
                  => ErrorNames(response.errors, extractedSlips[g].id)
        /\ \A h \in 1..Len(extractedLabels) :
              (\A g \in 1..Len(extractedSlips) :
                   extractedSlips[g].id # extractedLabels[h].id)
                  => ErrorNames(response.errors, extractedLabels[h].id)

\* The slip items of the request, and the name under which an outcome names one.
SlipItems == IF isBulk THEN extractedSlips ELSE orderSlips
ResultsFor(doc) == {r \in 1..Len(results) : results[r].pdfBase64.slip = doc}
ErrorsForOrder(id) ==
    {e \in 1..Len(errors) : "orderId" \in DOMAIN errors[e] /\ errors[e].orderId = id}
ErrorsForFile(name) ==
    {e \in 1..Len(errors) : "file" \in DOMAIN errors[e] /\ errors[e].file = name}

\* C5: in the bulk loop and in processFilePairs every slip item handled so far
\* has exactly one outcome, a result or an error naming it; the request ends
\* only after every item was handled, whatever failed before, and then results
\* plus errors number the slip items.
C5_OneOutcomePerItem ==
    (mergePc \in {"bulk", "pairs"} \/ (mergePc = "done" /\ ~(isBulk /\ extractedLabels = <<>>))) =>
        /\ Len(results) + Len(errors) = loopK
        /\ isBulk =>
              \A k \in 1..loopK :
                  Cardinality(ResultsFor(extractedSlips[k].buffer))
                    + Cardinality(ErrorsForOrder(extractedSlips[k].id)) = 1
        /\ ~isBulk =>
              \A k \in 1..loopK :
                  LET name == orderSlips[k].originalName
                  IN  Cardinality(ResultsFor(name))
                        + Cardinality(ErrorsForFile(name))
                      = Cardinality({j \in 1..loopK :
                                        orderSlips[j].originalName = name})
        /\ mergePc = "done" =>
              /\ loopK = Len(SlipItems)
              /\ response.status # 500
              /\ Len(response.results) + Len(response.errors) = Len(SlipItems)

\* The merge of the first slip group threw, and the second group was merged.
C5_Witness ==
    /\ BulkLoopRan
    /\ Len(extractedSlips) = 2
    /\ Len(errors) = 1
    /\ errors[1] = [message |-> "Error merging Order",
                    orderId |-> extractedSlips[1].id]
    /\ Len(results) = 1
    /\ results[1].pdfBase64.slip = extractedSlips[2].buffer

\* C6: each slip group handled whose order id some half carries has caused
\* exactly one call of processLabels, on the document of the first such half and
\* the document of the group, with isBulk true and the position of that half;
\* its result is cropped with BULK_CROP_TOP for a top half and BULK_CROP_BOTTOM
\* for a bottom half.  A group without such a half has caused no call.
C6_ForcedPosition ==
    (isBulk /\ mergePc \in {"bulk", "done"}) =>
        \A g \in 1..loopK :
            LET slip == extractedSlips[g]
                halves == {h \in 1..Len(extractedLabels) :
                              extractedLabels[h].id = slip.id}
                made == {c \in 1..Len(calls) : calls[c].label2 = slip.buffer}
            IN  IF halves = {} THEN made = {}
                ELSE LET half == extractedLabels[
                                     CHOOSE h \in halves : \A j \in halves : h <= j]
                     IN  /\ Cardinality(made) = 1
                         /\ \A c \in made :
                               /\ calls[c].label1 = half.buffer
                               /\ calls[c].options.isBulk = TRUE
                               /\ calls[c].options.position = half.position
                         /\ \A r \in ResultsFor(slip.buffer) :
                               /\ results[r].pdfBase64.label = half.buffer
                               /\ results[r].pdfBase64.config =
                                     (IF half.position = "top" THEN BULK_CROP_TOP
                                      ELSE BULK_CROP_BOTTOM)

\* Two halves carry 111, the first a bottom half: the group 111 was merged with
\* that bottom half under BULK_CROP_BOTTOM.
C6_Witness ==
    /\ BulkLoopRan
    /\ Len(extractedLabels) = 2
    /\ extractedLabels[1].id = "111" /\ extractedLabels[1].position = "bottom"
    /\ extractedLabels[2].id = "111" /\ extractedLabels[2].position = "top"
    /\ Len(results) = 1
    /\ results[1].filename = "111"
    /\ results[1].pdfBase64.label = extractedLabels[1].buffer
    /\ results[1].pdfBase64.config = BULK_CROP_BOTTOM

\* ------------------------------------------------ properties of processLabels
\* The call has returned a merged document.
ProcessReturned == plOutput # Pending /\ ~plOutput.threw
\* The first page of the merged document and the profile applied to it.
OutPage1 == plOutput.value.pdfBytes.pages[1]
OutConfig == plOutput.value.pdfBytes.config

\* C12: the copied label page is rotated by 90 degrees and its crop box is, in
\* the unrotated space, x = top, y = left, width = W - top - bottom,
\* height = H - left - right for a page of height below 500, and x = top,
\* y = H/2 + left, width = W - top - bottom, height = H/2 - left - right
\* otherwise, where top, bottom, left, right are the visual margins of the
\* profile.
C12_RotationAndCropBox ==
    ProcessReturned =>
        LET W == plLabel1.width
            H == plLabel1.height
            c == OutConfig
            box == OutPage1.cropBox
        IN  /\ OutPage1.rotation = 90
            /\ box.x = c.visualTopMargin
            /\ box.width = W - c.visualTopMargin - c.visualBottomMargin
            /\ H < 500 =>
                  /\ box.y = c.visualLeftMargin
                  /\ box.height = H - c.visualLeftMargin - c.visualRightMargin
            /\ H >= 500 =>
                  /\ 2 * (box.y - c.visualLeftMargin) = H
                  /\ 2 * (box.height + c.visualLeftMargin + c.visualRightMargin) = H

\* A Letter page without identifier, cropped with the standalone profile: the
\* box starts at half the height plus the left margin.
C12_Witness ==
    /\ ProcessReturned
    /\ plLabel1.width = 612
    /\ plLabel1.height = 792
    /\ OutConfig = DEFAULT_CROP
    /\ OutPage1.rotation = 90
    /\ OutPage1.cropBox = [x |-> 40, y |-> 406, width |-> 532, height |-> 346]

\* C13: the profile applied is a function of the final layout decision alone:
\* DEFAULT_CROP when the decision is not bulk, BULK_CROP_BOTTOM when it is bulk
\* with position "bottom", BULK_CROP_TOP when it is bulk with any other
\* position; the profile is one of the three fixed records, whose margins are
\* (40, 40, 10, 40), (70, 70, 27, 64) and (70, 70, 64, 28) for top, bottom, left
\* and right.
C13_ProfileByLayout ==
    ProcessReturned =>
        LET layout == LayoutOf(plLabel1, plLabel2, plOptions)
            profile(t, b, l, r) ==
                [visualTopMargin |-> t, visualBottomMargin |-> b,
                 visualLeftMargin |-> l, visualRightMargin |-> r]
        IN  /\ ~layout.isBulk => OutConfig = profile(40, 40, 10, 40)
            /\ (layout.isBulk /\ layout.position = "bottom") =>
                  OutConfig = profile(70, 70, 64, 28)
            /\ (layout.isBulk /\ layout.position # "bottom") =>
                  OutConfig = profile(70, 70, 27, 64)
            /\ plOptions.isBulk =>
                  /\ layout.isBulk
                  /\ layout.position =
                        IF plOptions.position = Null THEN "top"
                        ELSE plOptions.position

\* A bulk call with a position that is neither "top" nor "bottom" has been
\* cropped with the profile of the top half.
C13_Witness ==
    /\ ProcessReturned
    /\ plOptions = [isBulk |-> TRUE, position |-> "left"]
    /\ OutConfig = BULK_CROP_TOP
    /\ OutPage1.cropBox.x = 70

\* The margin invariant for the page of label 1 and the profile applied: the
\* page is shown rotated, so its visual width is its height H and its visual
\* height is its width W.
MarginInvariant ==
    /\ OutConfig.visualLeftMargin + OutConfig.visualRightMargin < plLabel1.height
    /\ OutConfig.visualTopMargin + OutConfig.visualBottomMargin < plLabel1.width

\* C14: whenever the page size and the profile applied satisfy the margin
\* invariant, the crop width and the crop height are strictly positive, for
\* pages of height below 500 and for the others.
C14_PositiveCrop ==
    (ProcessReturned /\ MarginInvariant) =>
        /\ OutPage1.cropBox.width > 0
        /\ OutPage1.cropBox.height > 0

\* A page 92 high cropped with the profile of the top half, whose left and
\* right margins sum to 91: the crop is 1 high.
C14_Witness ==
    /\ ProcessReturned
    /\ MarginInvariant
    /\ plLabel1.height = 92
    /\ OutConfig = BULK_CROP_TOP
    /\ OutPage1.cropBox.height = 1
    /\ OutPage1.cropBox.width = 472

\* C15 (as claimed): a call whose crop width or crop height would be zero or
\* negative fails; a returned document never carries a crop box of non-positive
\* width or height.
C15_NonPositiveCropRejected ==
    ProcessReturned =>
        /\ OutPage1.cropBox.width > 0
        /\ OutPage1.cropBox.height > 0

\* C16: whenever the crop width and height are positive, the crop box of the
\* first page of the merged document lies strictly inside the page of label 1:
\* 0 < x, 0 < y, x + width < W and y + height < H, whichever profile applies
\* and for pages of height below 500 as for the others.
C16_CropInsidePage ==
    (/\ ProcessReturned
     /\ OutPage1.cropBox.width > 0
     /\ OutPage1.cropBox.height > 0) =>
        LET box == OutPage1.cropBox
        IN  /\ 0 < box.x
            /\ 0 < box.y
            /\ box.x + box.width < plLabel1.width
            /\ box.y + box.height < plLabel1.height

\* A half page 612 x 396 cropped as a bottom half: the box (70, 64, 472, 304)
\* ends at x = 542 and y = 368.
C16_Witness ==
    /\ ProcessReturned
    /\ plLabel1.width = 612
    /\ plLabel1.height = 396
    /\ OutConfig = BULK_CROP_BOTTOM
    /\ OutPage1.cropBox = [x |-> 70, y |-> 64, width |-> 472, height |-> 304]

\* C17: for a slip of N pages the merged document has exactly 1 + N pages: the
\* first is the rotated and cropped copy of page 0 of the label (no other label
\* page is included), the next N are pages 0..N-1 of the slip in their order,
\* with the rotation and crop box of the source left alone.
C17_PagesOfMergedDocument ==
    ProcessReturned =>
        LET pages == plOutput.value.pdfBytes.pages
            N == plLabel2.pageCount
        IN  /\ Len(pages) = 1 + N
            /\ pages[1].doc = plLabel1.doc
            /\ pages[1].index = 0
            /\ pages[1].rotation = 90
            /\ pages[1].cropBox # NullObj
            /\ \A k \in 1..N :
                  pages[k + 1] = [doc |-> plLabel2.doc, index |-> k - 1,
                                  rotation |-> 0, cropBox |-> NullObj]

\* A label of two pages merged with a slip of two pages: three pages, the
\* second page of the label is not among them.
C17_Witness ==
    /\ ProcessReturned
    /\ plLabel1.pageCount = 2
    /\ plLabel2.pageCount = 2
    /\ Len(plOutput.value.pdfBytes.pages) = 3
    /\ plOutput.value.pdfBytes.pages[2].index = 0
    /\ plOutput.value.pdfBytes.pages[3].index = 1
    /\ plOutput.value.pdfBytes.pages[3].doc = "label2"

\* C18: the filename and the metadata are read off the slip alone.  When the
\* slip text carries an identifier (tiktok or etsy) the filename is that order
\* id and the metadata are those extracted from the slip; otherwise the
\* filename is "combined-label" and the metadata are the placeholders.  The
\* text of the label plays no part.
C18_FilenameFromSlip ==
    ProcessReturned =>
        LET id == CarriedId(plLabel2)
            out == plOutput.value
            tiktok == plLabel2.parses /\ HasTikTokPattern(plLabel2.text)
        IN  /\ id = Null =>
                  /\ out.filename = "combined-label"
                  /\ out.metadata = [orderId |-> "-", date |-> "-",
                                      tracking |-> "-", type |-> "unknown"]
            /\ id # Null =>
                  /\ out.filename = id
                  /\ out.metadata.orderId = id
                  /\ out.metadata.type = IF tiktok THEN "tiktok" ELSE "etsy"
                  /\ out.metadata = MetadataOf(extractLabelData(plLabel2).value)

\* A Letter label sheet carrying order 111 merged with a slip carrying order
\* 222 is named and described after the slip.
C18_Witness ==
    /\ ProcessReturned
    /\ plLabel1.height = 792
    /\ plLabel1.parses
    /\ MatchAllIds(plLabel1.text) = <<"111">>
    /\ CarriedId(plLabel2) = "222"
    /\ plOutput.value.filename = "222"
    /\ plOutput.value.metadata.orderId = "222"
    /\ plOutput.value.metadata.date = "01/22/2026"

\* An order identifier is detectable in the label document.
LabelHasId == plLabel1.parses /\ Len(plLabel1.text.ids) > 0

\* C19 (as claimed): without a bulk option, the profile of the top half is
\* applied whenever an identifier is found in the label, and the standalone
\* profile when none is.
C19_AutoDetectBulkTop ==
    (ProcessReturned /\ ~plOptions.isBulk) =>
        /\ LabelHasId => OutConfig = BULK_CROP_TOP
        /\ ~LabelHasId => OutConfig = DEFAULT_CROP

\* C19 (amended): without a bulk option, the layout is auto-detected only for a
\* label page higher than 600; there, when an identifier is found in the
\* label, the profile of the bottom half is applied if the order id of the
\* slip is first found as the second identifier of the label text, and the
\* profile of the top half otherwise.  For a page of height 600 or less, and
\* when no identifier is found in the label, the standalone profile is applied.
C19_AutoDetectAboveSheetHeight ==
    (ProcessReturned /\ ~plOptions.isBulk) =>
        LET target == CarriedId(plLabel2)
            matches == IF plLabel1.parses THEN MatchAllIds(plLabel1.text) ELSE <<>>
            second == /\ target # Null
                      /\ Len(matches) >= 2
                      /\ matches[2] = target
                      /\ matches[1] # target
        IN  /\ (plLabel1.height <= 600 \/ ~LabelHasId) => OutConfig = DEFAULT_CROP
            /\ (plLabel1.height > 600 /\ LabelHasId /\ second) =>
                  OutConfig = BULK_CROP_BOTTOM
            /\ (plLabel1.height > 600 /\ LabelHasId /\ ~second) =>
                  OutConfig = BULK_CROP_TOP

\* A Letter sheet reading orders 111 then 222, merged without options with the
\* slip of order 222, has been cropped as a bottom half.
C19_Witness ==
    /\ ProcessReturned
    /\ ~plOptions.isBulk
    /\ plLabel1.height = 792
    /\ plLabel1.parses
    /\ MatchAllIds(plLabel1.text) = <<"111", "222">>
    /\ CarriedId(plLabel2) = "222"
    /\ OutConfig = BULK_CROP_BOTTOM

\* ------------------------------------------------ properties of the page split
\* The band of the original page, in its own y coordinates, that falls within
\* the page of a half document: the page is drawn at its own scale at draw.y.
VisibleBand(half) ==
    [lo |-> 0 - half.draw.y, hi |-> half.size.height - half.draw.y]

\* C20: the page of size W x H last split gave two pages of width W and height
\* H/2, each drawing the whole page at its own size, the top one shifted down
\* by H/2 so that the band [H/2, H] shows and the bottom one unshifted so that
\* the band [0, H/2] shows; the two bands do not overlap and together are
\* [0, H]; a second call on the same document gives the same halves.
C20_SplitGeometry ==
    splitI > 0 =>
        LET W == splitSizes[splitI].width
            H == splitSizes[splitI].height
            top == VisibleBand(topPage)
            bot == VisibleBand(botPage)
        IN  /\ topPage.size.width = W /\ botPage.size.width = W
            /\ 2 * topPage.size.height = H /\ 2 * botPage.size.height = H
            /\ topPage.draw.width = W /\ topPage.draw.height = H
            /\ botPage.draw.width = W /\ botPage.draw.height = H
            /\ topPage.draw.x = 0 /\ botPage.draw.x = 0
            /\ 2 * topPage.draw.y = 0 - H
            /\ botPage.draw.y = 0
            /\ 2 * top.lo = H /\ top.hi = H
            /\ bot.lo = 0 /\ 2 * bot.hi = H
            /\ bot.hi = top.lo
            /\ splitHalves[splitI] = [top |-> topPage, bot |-> botPage]
            /\ splitRun = 2 =>
                  \A k \in 1..splitI : splitHalves[k] = firstSplit[k]

\* A Letter page has been split a second time: the top half is 612 x 396 with
\* the page drawn at y = -396, as the first time.
C20_Witness ==
    /\ splitRun = 2
    /\ splitI = 1
    /\ splitSizes[1] = [width |-> 612, height |-> 792]
    /\ topPage = [size |-> [width |-> 612, height |-> 396],
                  draw |-> [x |-> 0, y |-> -396, width |-> 612, height |-> 792]]
    /\ botPage = [size |-> [width |-> 612, height |-> 396],
                  draw |-> [x |-> 0, y |-> 0, width |-> 612, height |-> 792]]
    /\ firstSplit[1] = [top |-> topPage, bot |-> botPage]

\* ----------------------------------- properties of processLabels, continued
\* C25: every metadata value produced for a caller carries the six fields
\* order id, source kind, date, tracking, buyerName and buyerUsername: the
\* metadata returned by processLabels, also when the slip has no identifier,
\* and a non-null result of extractLabelData on the slip.
C25_SixMetadataFields ==
    ProcessReturned =>
        LET orderInfo == extractLabelData(plLabel2).value
        IN  /\ DOMAIN plOutput.value.metadata =
                   {"orderId", "type", "date", "tracking", "buyerName",
                    "buyerUsername"}
            /\ orderInfo # NullObj =>
                   DOMAIN orderInfo =
                       {"id", "type", "date", "tracking", "buyerName",
                        "buyerUsername"}

\* C27: with options.isBulk the auto-detection is skipped: the profile is that
\* of the bottom half when options.position is "bottom" and that of the top
\* half for any other or no position, whatever the label text and the slip
\* hold.
C27_BulkOptionDecidesAlone ==
    (ProcessReturned /\ plOptions.isBulk) =>
        OutConfig = IF plOptions.position = "bottom" THEN BULK_CROP_BOTTOM
                    ELSE BULK_CROP_TOP

\* A Letter sheet reading orders 111 then 222, merged as a bulk top half with
\* the slip of order 222, has been cropped as a top half.
C27_Witness ==
    /\ ProcessReturned
    /\ plOptions = [isBulk |-> TRUE, position |-> "top"]
    /\ plLabel1.height = 792
    /\ plLabel1.parses
    /\ MatchAllIds(plLabel1.text) = <<"111", "222">>
    /\ CarriedId(plLabel2) = "222"
    /\ OutConfig = BULK_CROP_TOP

\* C28: in the auto-detection (no bulk option, label page higher than 600):
\* when the slip gives a target id and the label text has an identifier, the
\* bottom half is chosen exactly when the first occurrence of the target among
\* the identifiers of the label is the second identifier, and the top half
\* otherwise, also when the target is not among them; when the slip gives no
\* id the top half is chosen if the label has an identifier; when the label
\* has no identifier the standalone profile stays.
C28_AutoDetectDecision ==
    (ProcessReturned /\ ~plOptions.isBulk /\ plLabel1.height > 600) =>
        LET target == CarriedId(plLabel2)
            matches == IF plLabel1.parses THEN MatchAllIds(plLabel1.text) ELSE <<>>
            firstAt(i) == /\ i <= Len(matches)
                          /\ matches[i] = target
                          /\ \A j \in 1..(i - 1) : matches[j] # target
        IN  /\ (target # Null /\ matches # <<>>) =>
                   /\ OutConfig = BULK_CROP_BOTTOM <=> firstAt(2)
                   /\ ~firstAt(2) => OutConfig = BULK_CROP_TOP
            /\ (target = Null /\ matches # <<>>) => OutConfig = BULK_CROP_TOP
            /\ matches = <<>> => OutConfig = DEFAULT_CROP

\* A Letter sheet reading order 222 twice, merged without options with the slip
\* of order 222, has been cropped as a top half: the first occurrence decides.
C28_Witness ==
    /\ ProcessReturned
    /\ ~plOptions.isBulk
    /\ plLabel1.height = 792
    /\ plLabel1.parses
    /\ MatchAllIds(plLabel1.text) = <<"222", "222">>
    /\ CarriedId(plLabel2) = "222"
    /\ OutConfig = BULK_CROP_TOP

\* C29: when the auto-detection selects the bottom half of a full-sheet label
\* page of height H, the crop box applied to the page lies within the lower
\* half of the page, the band from 0 to H/2 of the unrotated page.
C29_BottomCropInLowerHalf ==
    (/\ ProcessReturned
     /\ ~plOptions.isBulk
     /\ plLabel1.height > 600
     /\ OutConfig = BULK_CROP_BOTTOM) =>
        /\ OutPage1.cropBox.y >= 0
        /\ OutPage1.cropBox.y + OutPage1.cropBox.height <= Half(plLabel1.height)

\* ---------------------------- server.js: inputDir, /set-input-dir, /scan-default
\* The directories that exist, and a path at which there is none.
Dirs == {"dirA", "dirB"}
MissingDir == "missing"

\* The names a directory may hold: PDF files, one of them with an upper-case
\* extension, and a file that is no PDF.
PdfNames == <<"a.pdf", "b.PDF", "c.pdf", "d.pdf">>
DirNames == SubSeq(PdfNames, 1, MaxDirFiles) \o <<"notes.txt">>
Listings ==
    {SelectSeq(DirNames, LAMBDA n : n \in S) : S \in SUBSET Range(DirNames)}

\* f.toLowerCase().endsWith(".pdf")
IsPdf(name) == name # "notes.txt"

NoPath == [dir |-> Null, file |-> Null]

ServerInit ==
    /\ fsFiles \in [Dirs -> Listings]
    /\ inputDir \in Dirs \cup {MissingDir}
    /\ envFile \in {Null, inputDir}
    /\ setPc = "start"
    /\ newPath \in Dirs \cup {MissingDir, Null}
    /\ setResponse = NullObj
    /\ scanPc = "start"
    /\ scanStartDir = Null
    /\ scanListedDir = Null
    /\ pdfFiles = <<>>
    /\ filePath = NoPath
    /\ scanFiles = <<>>
    /\ scanResponse = NullObj

ServerIdle ==
    /\ fsFiles = [d \in Dirs |-> <<>>]
    /\ inputDir = MissingDir
    /\ envFile = Null
    /\ setPc = "idle"
    /\ newPath = Null
    /\ setResponse = NullObj
    /\ scanPc = "idle"
    /\ scanStartDir = Null
    /\ scanListedDir = Null
    /\ pdfFiles = <<>>
    /\ filePath = NoPath
    /\ scanFiles = <<>>
    /\ scanResponse = NullObj

otherVars == <<extractVars, slipVars, labelVars, mergeVars, processVars, splitVars>>
scanRequestVars == <<scanPc, scanStartDir, scanListedDir, pdfFiles, filePath,
                     scanFiles, scanResponse>>

\* /set-input-dir up to the first await: the two validations, then
\* updateEnvFile starts reading the .env file.
SetInputDirBegin ==
    /\ setPc = "start"
    /\ IF newPath = Null
       THEN /\ setResponse' = [status |-> 400, error |-> "Path is required"]
            /\ setPc' = "done"
       ELSE IF newPath \notin DOMAIN fsFiles
       THEN /\ setResponse' = [status |-> 400, error |-> "Directory does not exist"]
            /\ setPc' = "done"
       ELSE /\ setPc' = "readEnv"
            /\ UNCHANGED setResponse
    /\ UNCHANGED <<inputDir, envFile, fsFiles, newPath>>
    /\ UNCHANGED <<scanRequestVars, otherVars>>

\* updateEnvFile after readFile: the new content is computed and writeFile
\* starts.
UpdateEnvFileRead ==
    /\ setPc = "readEnv"
    /\ setPc' = "writeEnv"
    /\ UNCHANGED <<inputDir, envFile, fsFiles, newPath, setResponse>>
    /\ UNCHANGED <<scanRequestVars, otherVars>>

\* updateEnvFile after writeFile: "inputDir = newPath; // Update memory", then
\* the response; when writeFile rejects, the catch of the handler answers 500.
UpdateEnvFileWritten ==
    /\ setPc = "writeEnv"
    /\ \E ok \in BOOLEAN :
          IF ok
          THEN /\ envFile' = newPath
               /\ inputDir' = newPath
               /\ setResponse' = [status |-> 200, success |-> TRUE]
          ELSE /\ setResponse' = [status |-> 500, success |-> FALSE]
               /\ UNCHANGED <<envFile, inputDir>>
    /\ setPc' = "done"
    /\ UNCHANGED <<fsFiles, newPath>>
    /\ UNCHANGED <<scanRequestVars, otherVars>>

\* /scan-default up to the first await: existsSync(inputDir), then
\* readdir(inputDir) starts.
ScanBegin ==
    /\ scanPc = "start"
    /\ scanStartDir' = inputDir
    /\ IF inputDir \notin DOMAIN fsFiles
       THEN /\ scanResponse' = [status |-> 200, success |-> FALSE,
                                configNeeded |-> TRUE, notFound |-> inputDir]
            /\ scanPc' = "done"
            /\ UNCHANGED scanListedDir
       ELSE /\ scanListedDir' = inputDir
            /\ scanPc' = "readdir"
            /\ UNCHANGED scanResponse
    /\ UNCHANGED <<pdfFiles, filePath, scanFiles>>
    /\ UNCHANGED <<inputDir, envFile, fsFiles, setPc, newPath, setResponse>>
    /\ UNCHANGED otherVars

\* After readdir: the PDF files are kept; without any the response is sent,
\* otherwise the path of the first file is built and readFile starts.
ScanListed ==
    /\ scanPc = "readdir"
    /\ LET found == SelectSeq(fsFiles[scanListedDir], IsPdf)
       IN  /\ pdfFiles' = found
           /\ IF found = <<>>
              THEN /\ scanResponse' = [status |-> 200, success |-> TRUE,
                                       noPdfIn |-> inputDir]
                   /\ scanPc' = "done"
                   /\ UNCHANGED filePath
              ELSE /\ filePath' = [dir |-> inputDir, file |-> found[1]]
                   /\ scanPc' = "read"
                   /\ UNCHANGED scanResponse
    /\ UNCHANGED <<scanStartDir, scanListedDir, scanFiles>>
    /\ UNCHANGED <<inputDir, envFile, fsFiles, setPc, newPath, setResponse>>
    /\ UNCHANGED otherVars

\* After readFile and stat of filePath: when there is no such file the catch
\* answers 500; otherwise the file is pushed and either the path of the next
\* file is built, with inputDir as it is now, or processFilePairs starts.
ScanReadFile ==
    /\ scanPc = "read"
    /\ IF filePath.file \notin Range(fsFiles[filePath.dir])
       THEN /\ scanResponse' = [status |-> 500, error |-> "Scan Error"]
            /\ scanPc' = "done"
            /\ UNCHANGED <<scanFiles, filePath>>
       ELSE /\ scanFiles' = Append(scanFiles,
                                   [originalName |-> filePath.file,
                                    buffer |-> filePath,
                                    lastModified |-> filePath])
            /\ IF Len(scanFiles) + 1 < Len(pdfFiles)
               THEN /\ filePath' = [dir |-> inputDir,
                                    file |-> pdfFiles[Len(scanFiles) + 2]]
                    /\ UNCHANGED scanPc
               ELSE /\ scanPc' = "pairs"
                    /\ UNCHANGED filePath
            /\ UNCHANGED scanResponse
    /\ UNCHANGED <<scanStartDir, scanListedDir, pdfFiles>>
    /\ UNCHANGED <<inputDir, envFile, fsFiles, setPc, newPath, setResponse>>
    /\ UNCHANGED otherVars

\* After processFilePairs and the sort: the response.  What processFilePairs
\* makes of the files is a function of the files; the response is kept as the
\* files it was given and the directory it reports.
ScanRespond ==
    /\ scanPc = "pairs"
    /\ scanResponse' = [status |-> 200, success |-> TRUE,
                        fileObjects |-> scanFiles, scannedDir |-> inputDir]
    /\ scanPc' = "done"
    /\ UNCHANGED <<scanStartDir, scanListedDir, pdfFiles, filePath, scanFiles>>
    /\ UNCHANGED <<inputDir, envFile, fsFiles, setPc, newPath, setResponse>>
    /\ UNCHANGED otherVars

\* ------------------------------------------------------ properties of the server
\* What /scan-default answers when no other request runs beside it and
\* inputDir is dir.
ScanAlone(dir) ==
    IF dir \notin DOMAIN fsFiles
    THEN [status |-> 200, success |-> FALSE, configNeeded |-> TRUE,
          notFound |-> dir]
    ELSE LET found == SelectSeq(fsFiles[dir], IsPdf)
         IN  IF found = <<>>
             THEN [status |-> 200, success |-> TRUE, noPdfIn |-> dir]
             ELSE [status |-> 200, success |-> TRUE,
                   fileObjects |->
                       [k \in 1..Len(found) |->
                           [originalName |-> found[k],
                            buffer |-> [dir |-> dir, file |-> found[k]],
                            lastModified |-> [dir |-> dir, file |-> found[k]]]],
                   scannedDir |-> dir]

\* C24: no invocation observes a value written by another: the response of a
\* finished /scan-default is the response the same request gives when it
\* runs alone, with inputDir as it was when the request began.
C24_ScanEqualsScanAlone ==
    scanPc = "done" => scanResponse = ScanAlone(scanStartDir)

\* C30: a /scan-default request uses one directory throughout: the directory
\* it lists, every directory it reads a file from and the directory it
\* reports are the value inputDir had when the request began.
C30_OneDirectoryThroughout ==
    /\ scanListedDir \in {Null, scanStartDir}
    /\ filePath.dir \in {Null, scanStartDir}
    /\ \A k \in 1..Len(scanFiles) : scanFiles[k].buffer.dir = scanStartDir
    /\ (scanPc = "done" /\ "scannedDir" \in DOMAIN scanResponse)
           => scanResponse.scannedDir = scanStartDir

\* ------------------------------------------------------------ specifications
InitExtract ==
    ExtractInit /\ SlipIdle /\ LabelIdle /\ MergeIdle /\ ProcessIdle /\ SplitIdle
    /\ ServerIdle
NextExtract == CallExtractLabelData \/ CallGetIdsFromPdf
SpecExtract == InitExtract /\ [][NextExtract]_vars

InitSlips ==
    SlipInit /\ ExtractIdle /\ LabelIdle /\ MergeIdle /\ ProcessIdle /\ SplitIdle
    /\ ServerIdle
NextSlips == SlipScanPage \/ SlipReturn
SpecSlips == InitSlips /\ [][NextSlips]_vars

InitLabels ==
    LabelInit /\ ExtractIdle /\ SlipIdle /\ MergeIdle /\ ProcessIdle /\ SplitIdle
    /\ ServerIdle
NextLabels == LabelSkipSlip \/ LabelLoad \/ LabelScanPage \/ LabelReturn
SpecLabels == InitLabels /\ [][NextLabels]_vars

InitProcess ==
    ProcessInit /\ ExtractIdle /\ SlipIdle /\ LabelIdle /\ MergeIdle /\ SplitIdle
    /\ ServerIdle
NextProcess == CallProcessLabels
SpecProcess == InitProcess /\ [][NextProcess]_vars

InitSplit ==
    SplitInit /\ ExtractIdle /\ SlipIdle /\ LabelIdle /\ MergeIdle /\ ProcessIdle
    /\ ServerIdle
NextSplit == SplitPage \/ SplitReturn \/ SplitAgain
SpecSplit == InitSplit /\ [][NextSplit]_vars

InitMerge == MergeInit /\ ExtractIdle /\ ProcessIdle /\ SplitIdle /\ ServerIdle
NextMerge ==
    BulkIdentify \/ BulkSlipStep \/ PairsClassify \/ PairsSlipStep \/ MergeRespond
SpecMerge == InitMerge /\ [][NextMerge]_vars

InitServer ==
    ServerInit /\ ExtractIdle /\ SlipIdle /\ LabelIdle /\ MergeIdle /\ ProcessIdle
    /\ SplitIdle
NextServer ==
    \/ SetInputDirBegin \/ UpdateEnvFileRead \/ UpdateEnvFileWritten
    \/ ScanBegin \/ ScanListed \/ ScanReadFile \/ ScanRespond
SpecServer == InitServer /\ [][NextServer]_vars

====
